---- MODULE Spec2Model ----
(***************************************************************************)
(* A model of the stock-analysis agent server:                             *)
(*   - main.py            the /agno-agent transport: event_generator, its  *)
(*                        event queue and draining loop, the result events *)
(*   - stock_analysis.py  the four-stage pipeline chat, simultion,         *)
(*                        cash_allocation, gather_insights, and the        *)
(*                        allocation simulator inside cash_allocation      *)
(* The specifications share the variables:                                 *)
(*   Spec     one request: the pipeline task interleaved with the          *)
(*            transport's generator (SpecFair adds the scheduler's         *)
(*            fairness)                                                    *)
(*   SpecSim  the purchase loops of cash_allocation, one loop iteration    *)
(*            per step, over all small inputs                              *)
(*   SpecV2   one call of a tool or of a workflow step of                  *)
(*            market_analysis_v2                                           *)
(*   SpecTwo  two requests to /agno-agent served by one event loop         *)
(*   SpecText the streaming of a text result of up to MaxLongText          *)
(*            characters                                                   *)
(***************************************************************************)
EXTENDS Integers, Sequences, FiniteSets, TLC

VARIABLES
    \* ---- main.py: event_generator ----
    gpc,                  \* position of the generator
    stream,               \* the events yielded to the client, in order
    event_queue,          \* asyncio.Queue of events not yet forwarded
    emitted,              \* every event passed to emit_event, in call order
    use_v2_workflow,      \* routing decision of the request
    agent_task,           \* "none" | "running" | "done" | "failed"
    text_pos,             \* next chunk of the text result to stream
    input_messages,       \* input_data.messages as received
    \* ---- stock_analysis.py: the pipeline and its shared context ----
    ppc,                  \* position of the pipeline task
    stages,               \* the stages entered so far, in order
    response,             \* chat's local `response` (<<>> while unbound)
    chat_ret,             \* what chat returned
    messages,             \* additional_data["messages"]
    tool_logs,            \* additional_data["tool_logs"]
    available_cash,       \* additional_data["available_cash"]
    investment_portfolio, \* additional_data["investment_portfolio"]
    investment_summary,   \* additional_data["investment_summary"]
    be_stock_data,        \* additional_data["be_stock_data"] (<<>> until set)
    be_arguments,         \* additional_data["be_arguments"] (<<>> until set)
    fetch,                \* simultion's current_year and start date at the download (<<>> before)
    insights,             \* additional_data["insights"] (<<>> until set)
    \* ---- stock_analysis.py: the purchase loops of cash_allocation ----
    sim_pc,               \* "off" | "loop" | "done"
    tickers, amounts, interval, stock_data, start_cash,   \* the loop's inputs
    sim_date, sim_idx,    \* loop counters (row of stock_data, position in tickers)
    total_cash, holdings, investment_log, add_funds_needed, add_funds_dates,
    sim_summary,          \* the summary fields of lines 509-557 (<<>> until computed)
    spy_prices,           \* the benchmark series on the frame's dates (<<>> until fetched)
    benchmark,            \* the benchmark simulation of lines 599-633 (<<>> until run)
    performanceData,      \* the chart series of lines 637-669 (<<>> until built)
    \* ---- market_analysis_v2: one call of a tool or of a workflow step ----
    v2_pc,                \* "off" | position in retry_with_backoff or in a workflow step
    retry,                \* retry_with_backoff's wrapper: its arguments and locals
    fred,                 \* get_economic_indicators: its arguments and locals
    exa,                  \* the search_portfolio_news call: what Exa did, what was returned
    step_output,          \* the StepOutput a workflow step returned (<<>> before)
    \* ---- main.py: a second request served by the same event loop ----
    cur,                  \* the request whose coroutines' locals the variables above hold
    suspended             \* the locals of the other request's coroutines (<<>>: no other request)

transport_vars == <<gpc, stream, event_queue, emitted, use_v2_workflow, agent_task, text_pos,
                    input_messages>>
pipeline_vars == <<ppc, stages, response, chat_ret, messages, tool_logs, available_cash,
                   investment_portfolio, investment_summary, be_stock_data, be_arguments, fetch,
                   insights>>
sim_vars == <<sim_pc, tickers, amounts, interval, stock_data, start_cash, sim_date, sim_idx,
              total_cash, holdings, investment_log, add_funds_needed, add_funds_dates,
              sim_summary, spy_prices, benchmark, performanceData>>
v2_vars == <<v2_pc, retry, fred, exa, step_output>>
req_vars == <<cur, suspended>>
vars == <<transport_vars, pipeline_vars, sim_vars, v2_vars, req_vars>>

(***************************************************************************)
(* Bounds of the model                                                     *)
(***************************************************************************)
MaxDates == 2        \* rows of the price frame
MaxText == 2         \* characters of an assistant text
MaxAttempts == 3     \* max_attempts of retry_with_backoff
MaxIndicators == 2   \* length of an indicator list passed by a caller
MaxLongText == 210   \* characters of an assistant text in SpecText

(***************************************************************************)
(* Values                                                                  *)
(***************************************************************************)
NaN == -1            \* a missing price (numpy nan); valid prices are > 0
None == -2           \* Python None where a number is expected
Inf == -3            \* numpy inf, the quotient of a positive number by 0.0
NegInf == -4         \* numpy -inf

\* a test that takes a zero for the missing value
IsNaNOfZero(p) == p = 0

IsNaN(p) == p = NaN

\* The arithmetic of the purchase loops on numpy floats. The quantities of the
\* loops (prices, amounts, cash, shares, costs) are never negative numbers, so
\* the negative codes above stand for the values that are not numbers.
XIsNumber(a) == a >= 0

\* a + b
XAdd(a, b) ==
    IF a = NaN \/ b = NaN THEN NaN
    ELSE IF (a = Inf /\ b = NegInf) \/ (a = NegInf /\ b = Inf) THEN NaN
    ELSE IF a = Inf \/ b = Inf THEN Inf
    ELSE IF a = NegInf \/ b = NegInf THEN NegInf
    ELSE a + b

\* a - b, for a number b not above a, or a or b not a number
XSub(a, b) ==
    IF a = NaN \/ b = NaN THEN NaN
    ELSE IF a = b /\ ~XIsNumber(a) THEN NaN
    ELSE IF a = Inf \/ b = NegInf THEN Inf
    ELSE IF a = NegInf \/ b = Inf THEN NegInf
    ELSE a - b

\* a * b for a, b >= 0
XMul(a, b) ==
    IF a = NaN \/ b = NaN THEN NaN
    ELSE IF a = Inf \/ b = Inf THEN (IF a = 0 \/ b = 0 THEN NaN ELSE Inf)
    ELSE a * b

\* a // b for a, b >= 0: numpy's floor_divide, which raises nothing
XFloorDiv(a, b) ==
    IF a = NaN \/ b = NaN THEN NaN
    ELSE IF a = Inf THEN NaN
    ELSE IF b = Inf THEN 0
    ELSE IF b = 0 THEN (IF a = 0 THEN NaN ELSE Inf)
    ELSE a \div b

\* a >= b and a > b: False when either is nan
XGe(a, b) ==
    /\ ~a = NaN /\ ~b = NaN
    /\ \/ a = Inf
       \/ XIsNumber(a) /\ XIsNumber(b) /\ a >= b
XGt(a, b) ==
    /\ ~a = NaN /\ ~b = NaN
    /\ \/ a = Inf /\ b # Inf
       \/ XIsNumber(a) /\ XIsNumber(b) /\ a > b

Symbols == {"AAPL", "MSFT"}
TickerLists == {<<"AAPL">>, <<"AAPL", "MSFT">>, <<"MSFT", "AAPL">>, <<"AAPL", "AAPL">>}
AmountValues == {0, 3, 5}
PriceValues == {NaN, 2, 3}
CashValues == {None, 0, 4, 10}
Intervals == {"single_shot", "1mo"}

\* the rows of the price frames: three prices for one symbol, two for the other
PricesOf == [AAPL |-> PriceValues, MSFT |-> PriceValues \ {3}]
Rows == {r \in [Symbols -> PriceValues] : \A t \in Symbols : r[t] \in PricesOf[t]}
\* rows holding a price of 0.0
ZeroRows == {r \in [Symbols -> {0, 2}] : \E t \in Symbols : r[t] = 0}
\* price frames: the rows of the dates in index order
Frames ==
    UNION {[1..n -> Rows] : n \in 1..MaxDates}
    \cup UNION {{f \in [1..n -> ZeroRows \cup {[t \in Symbols |-> 2]}] :
                     \E d \in 1..n : f[d] \in ZeroRows} : n \in 1..MaxDates}

RECURSIVE SumSeq(_)
SumSeq(s) == IF s = <<>> THEN 0 ELSE Head(s) + SumSeq(Tail(s))

(***************************************************************************)
(* Events, messages and the inputs of one request                          *)
(***************************************************************************)
\* An event of the stream. op names the JSON-patch of a STATE_DELTA, id the
\* tool-log / tool-call / message id, idx the index in a /tool_logs/{idx} path.
Event(type, op, id, idx, value) ==
    [type |-> type, op |-> op, id |-> id, idx |-> idx, value |-> value]

RunStarted == Event("RUN_STARTED", "", "", 0, <<>>)
StateSnapshot == Event("STATE_SNAPSHOT", "", "", 0, <<>>)
RunFinished == Event("RUN_FINISHED", "", "", 0, <<>>)
\* {"op": "add", "path": "/tool_logs/-", "value": {status: "processing", id}}
AddLog(id) == Event("STATE_DELTA", "add_log", id, 0, <<>>)
\* {"op": "replace", "path": "/tool_logs/{index}/status", "value": "completed"}
CompleteLog(index) == Event("STATE_DELTA", "complete_log", "", index, <<>>)
\* {"op": "replace", "path": "/investment_portfolio", "value": [...]}
ReplacePortfolio(pairs) == Event("STATE_DELTA", "replace_portfolio", "", 0, pairs)
\* {"op": "replace", "path": "/tool_logs", "value": []}
ResetLogs == Event("STATE_DELTA", "reset_logs", "", 0, <<>>)

NoToolCalls == [none |-> TRUE, calls |-> <<>>]
ToolCalls(calls) == [none |-> FALSE, calls |-> calls]
ToolCall(id, name, arguments) == [id |-> id, name |-> name, arguments |-> arguments]

Message(role, content, tool_calls, tool_call_id) ==
    [role |-> role, content |-> content, tool_calls |-> tool_calls,
     tool_call_id |-> tool_call_id]
AssistantMessage(content, tool_calls) == Message("assistant", content, tool_calls, "")
ToolMessage(tool_call_id) == Message("tool", <<"extracted">>, NoToolCalls, tool_call_id)

\* A text of n characters; character i is the number i
Text(n) == [i \in 1..n |-> i]
Texts == {Text(n) : n \in 0..MaxText}

\* input_data.messages: a conversation ending with the user's request
SystemMessage == Message("system", <<"prompt">>, NoToolCalls, "")
UserMessage(words) == Message("user", words, NoToolCalls, "")
Conversations ==
    {<<SystemMessage, UserMessage(<<"invest">>)>>,
     <<SystemMessage, UserMessage(<<"fed", "outlook">>)>>}

\* what the extraction LLM can put in its tool call
NoArgs ==
    [ticker_symbols |-> <<>>, amount_of_dollars_to_be_invested |-> <<>>,
     interval_of_investment |-> "", investment_date |-> <<>>]

\* investment_date strings, character by character, and the years
\* datetime.now().year can give
InvestmentDates ==
    {<<"2", "0", "1", "9", "-", "0", "5", "-", "1", "7">>,
     <<"2", "0", "2", "2", "-", "0", "1", "-", "0", "3">>,
     <<"2", "0", "2", "6", "-", "0", "2", "-", "0", "1">>}
CurrentYears == {2026, 2027}

ExtractionArgs ==
    {[ticker_symbols |-> <<"AAPL">>, amount_of_dollars_to_be_invested |-> <<5>>,
      interval_of_investment |-> "single_shot", investment_date |-> d] :
        d \in InvestmentDates}
    \cup {[ticker_symbols |-> <<"AAPL", "MSFT">>, amount_of_dollars_to_be_invested |-> <<5, 3>>,
            interval_of_investment |-> "1mo", investment_date |-> d] :
              d \in InvestmentDates}

\* what the chat completion can do: select the tool, answer in text, raise,
\* or hand back a response object whose processing raises
ChatResponses ==
    {[kind |-> "tool_calls", arguments |-> a, content |-> <<>>] : a \in ExtractionArgs}
    \cup {[kind |-> "text", arguments |-> NoArgs, content |-> c] : c \in Texts}
    \cup {[kind |-> "malformed", arguments |-> NoArgs, content |-> <<>>]}

\* what yf.download can return for the request's tickers (<<>>: no rows)
DownloadedFrames ==
    {<<>>,
     <<[AAPL |-> 2, MSFT |-> 3]>>,
     <<[AAPL |-> NaN, MSFT |-> 2], [AAPL |-> 3, MSFT |-> 2]>>}

RequestCash == {10}

Last(s) == s[Len(s)]

(***************************************************************************)
(* cash_allocation: the purchase loops                                     *)
(***************************************************************************)
LogEntry(kind, date, ticker, shares, price, cost) ==
    [kind |-> kind, date |-> date, ticker |-> ticker, shares |-> shares,
     price |-> price, cost |-> cost]

\* Steps 5-6: the loop's starting state
StartCash(cash, amts) == IF cash # None THEN cash ELSE SumSeq(amts)

InitialSim(tks, amts, cash) ==
    [total_cash |-> StartCash(cash, amts),
     holdings |-> [t \in {tks[i] : i \in 1..Len(tks)} |-> 0],
     investment_log |-> <<>>,
     add_funds_needed |-> FALSE,
     add_funds_dates |-> <<>>]

\* mutant: never more than one share per purchase
SharesForAtMostOne(money, price) ==
    IF XGt(XFloorDiv(money, price), 1) THEN 1 ELSE XFloorDiv(money, price)

\* mutant: shares rounded up instead of down
SharesForRoundedUp(money, price) ==
    IF price = 0 THEN XFloorDiv(money, price) ELSE (money + price - 1) \div price

\* allocated // price and total_cash // price
SharesFor(money, price) == XFloorDiv(money, price)

\* One iteration of the single-shot loop: ticker number idx at the first date
SingleShotIter(st, idx, tks, amts, row, date) ==
    LET ticker == tks[idx]
        price == row[ticker]
        allocated == amts[idx]
    IN  IF IsNaN(price)
        THEN [st EXCEPT
                !.investment_log = Append(@, LogEntry("no_price", date, ticker, 0, price, 0)),
                !.add_funds_needed = TRUE,
                !.add_funds_dates = Append(@, <<date, ticker, price, amts[idx]>>)]
        ELSE IF XGe(st.total_cash, allocated) /\ XGe(allocated, price)
        THEN LET shares_to_buy == SharesFor(allocated, price)
                 cost == XMul(shares_to_buy, price)
             IN  IF XGt(shares_to_buy, 0)
                 THEN [st EXCEPT
                         !.holdings[ticker] = XAdd(@, shares_to_buy),
                         !.total_cash = XSub(@, cost),
                         !.investment_log =
                             Append(@, LogEntry("bought", date, ticker, shares_to_buy, price, cost))]
                 ELSE [st EXCEPT
                         !.investment_log =
                             Append(@, LogEntry("not_enough_allocated", date, ticker, 0, price, 0)),
                         !.add_funds_needed = TRUE,
                         !.add_funds_dates = Append(@, <<date, ticker, price, allocated>>)]
        ELSE [st EXCEPT
                !.investment_log =
                    Append(@, LogEntry("not_enough_total", date, ticker, 0, price, 0)),
                !.add_funds_needed = TRUE,
                !.add_funds_dates = Append(@, <<date, ticker, price, st.total_cash>>)]

\* an iteration that passes over a price above the cash in silence
PeriodicIterSilent(st, i, tks, row, date) ==
    LET ticker == tks[i]
        price == row[ticker]
    IN  IF IsNaN(price) \/ ~XGe(st.total_cash, price)
        THEN st
        ELSE LET shares_to_buy == SharesFor(st.total_cash, price)
                 cost == XMul(shares_to_buy, price)
             IN  IF XGt(shares_to_buy, 0)
                 THEN [st EXCEPT
                         !.holdings[ticker] = XAdd(@, shares_to_buy),
                         !.total_cash = XSub(@, cost),
                         !.investment_log =
                             Append(@, LogEntry("bought", date, ticker, shares_to_buy, price, cost))]
                 ELSE st

\* One iteration of the periodic loop: ticker number i at one date
PeriodicIter(st, i, tks, row, date) ==
    LET ticker == tks[i]
        price == row[ticker]
    IN  IF IsNaN(price)
        THEN st
        ELSE IF XGe(st.total_cash, price)
        THEN LET shares_to_buy == SharesFor(st.total_cash, price)
                 cost == XMul(shares_to_buy, price)
             IN  IF XGt(shares_to_buy, 0)
                 THEN [st EXCEPT
                         !.holdings[ticker] = XAdd(@, shares_to_buy),
                         !.total_cash = XSub(@, cost),
                         !.investment_log =
                             Append(@, LogEntry("bought", date, ticker, shares_to_buy, price, cost))]
                 ELSE st
        ELSE [st EXCEPT
                !.add_funds_needed = TRUE,
                !.add_funds_dates = Append(@, <<date, ticker, price, st.total_cash>>),
                !.investment_log =
                    Append(@, LogEntry("not_enough_cash", date, ticker, 0, price, 0))]

\* The simulator's state as one record, and back
SimState ==
    [total_cash |-> total_cash, holdings |-> holdings, investment_log |-> investment_log,
     add_funds_needed |-> add_funds_needed, add_funds_dates |-> add_funds_dates]

\* a write-back that leaves the funds-insufficient flag as it was
SetSimStateKeepingFlag(st) ==
    /\ total_cash' = st.total_cash
    /\ holdings' = st.holdings
    /\ investment_log' = st.investment_log
    /\ add_funds_needed' = add_funds_needed
    /\ add_funds_dates' = st.add_funds_dates

SetSimState(st) ==
    /\ total_cash' = st.total_cash
    /\ holdings' = st.holdings
    /\ investment_log' = st.investment_log
    /\ add_funds_needed' = st.add_funds_needed
    /\ add_funds_dates' = st.add_funds_dates

(***************************************************************************)
(* cash_allocation: the summary and the benchmark                          *)
(***************************************************************************)
\* The numbers of the summary can be negative (returns) and fractional
\* (percentages): a number is a fraction <<n, d>> with d > 0, and <<0, 0>>,
\* <<1, 0>>, <<-1, 0>> are nan, inf and -inf.
Num(n) == <<n, 1>>
FNaN == <<0, 0>>
FInf == <<1, 0>>
FNegInf == <<-1, 0>>

\* a value of the purchase loops as a number of the summary
Lift(x) ==
    IF x = NaN \/ x = None THEN FNaN
    ELSE IF x = Inf THEN FInf
    ELSE IF x = NegInf THEN FNegInf
    ELSE Num(x)

FIsNaN(a) == a = FNaN
FIsFinite(a) == a[2] # 0
FIsZero(a) == a[2] # 0 /\ a[1] = 0
Sgn(n) == IF n > 0 THEN 1 ELSE IF n < 0 THEN -1 ELSE 0

FNeg(a) == <<-a[1], a[2]>>

FAdd(a, b) ==
    IF FIsNaN(a) \/ FIsNaN(b) THEN FNaN
    ELSE IF ~FIsFinite(a) /\ ~FIsFinite(b) THEN (IF a = b THEN a ELSE FNaN)
    ELSE IF ~FIsFinite(a) THEN a
    ELSE IF ~FIsFinite(b) THEN b
    ELSE <<a[1] * b[2] + b[1] * a[2], a[2] * b[2]>>

FSub(a, b) == FAdd(a, FNeg(b))

FMul(a, b) ==
    IF FIsNaN(a) \/ FIsNaN(b) THEN FNaN
    ELSE IF ~FIsFinite(a) \/ ~FIsFinite(b)
    THEN (IF a[1] = 0 \/ b[1] = 0 THEN FNaN ELSE <<Sgn(a[1]) * Sgn(b[1]), 0>>)
    ELSE <<a[1] * b[1], a[2] * b[2]>>

\* a / b as numpy divides: a zero divisor gives inf or nan
FDiv(a, b) ==
    IF FIsNaN(a) \/ FIsNaN(b) THEN FNaN
    ELSE IF ~FIsFinite(a) /\ ~FIsFinite(b) THEN FNaN
    ELSE IF ~FIsFinite(a) THEN <<Sgn(a[1]) * (IF b[1] < 0 THEN -1 ELSE 1), 0>>
    ELSE IF ~FIsFinite(b) THEN Num(0)
    ELSE IF b[1] = 0 THEN (IF a[1] = 0 THEN FNaN ELSE <<Sgn(a[1]), 0>>)
    ELSE IF b[1] < 0 THEN <<-(a[1] * b[2]), -(a[2] * b[1])>>
    ELSE <<a[1] * b[2], a[2] * b[1]>>

\* a > b: False when either is nan
FGt(a, b) ==
    /\ ~FIsNaN(a) /\ ~FIsNaN(b)
    /\ IF ~FIsFinite(a) THEN a = FInf /\ b # FInf
       ELSE IF ~FIsFinite(b) THEN b = FNegInf
       ELSE a[1] * b[2] > b[1] * a[2]

\* a // b for a, b >= 0
FFloorDiv(a, b) ==
    IF FIsNaN(a) \/ FIsNaN(b) THEN FNaN
    ELSE IF ~FIsFinite(a) THEN FNaN
    ELSE IF ~FIsFinite(b) THEN Num(0)
    ELSE IF b[1] = 0 THEN (IF a[1] = 0 THEN FNaN ELSE FInf)
    ELSE Num((a[1] * b[2]) \div (a[2] * b[1]))

\* the modelled symbols whose text begins with the text of a ticker
BeginningWith(ticker) == IF ticker = "A" THEN {"A", "AAPL"} ELSE {ticker}

\* f"shares of {ticker}" in log: the line of a purchase reads "... shares of
\* AAPL at $...", which holds the text "shares of A" as well
MentionsSharesOf(ticker, entry) == entry.ticker \in BeginningWith(ticker)

\* lines 528-536: the costs read back from the "Bought" lines of the ticker
RECURSIVE CostsInLog(_, _)
CostsInLog(log, ticker) ==
    IF log = <<>> THEN Num(0)
    ELSE LET rest == CostsInLog(SubSeq(log, 1, Len(log) - 1), ticker)
             entry == Last(log)
         IN  IF entry.kind = "bought" /\ MentionsSharesOf(ticker, entry)
             THEN FAdd(rest, Lift(entry.cost))
             ELSE rest

\* lines 520-537: what went into one ticker
InvestedIn(st, ticker, itv, frame) ==
    IF itv = "single_shot"
    THEN FMul(Lift(st.holdings[ticker]), Lift(frame[1][ticker]))
    ELSE CostsInLog(st.investment_log, ticker)

\* line 544
HoldingValue(st, ticker, frame) ==
    FMul(Lift(st.holdings[ticker]), Lift(frame[Len(frame)][ticker]))

\* line 538 and line 546: the sums run over the positions of the ticker list
RECURSIVE TotalInvested(_, _, _, _, _)
TotalInvested(st, tks, itv, frame, n) ==
    IF n = 0 THEN Num(0)
    ELSE FAdd(TotalInvested(st, tks, itv, frame, n - 1), InvestedIn(st, tks[n], itv, frame))

RECURSIVE TotalHoldingValue(_, _, _, _)
TotalHoldingValue(st, tks, frame, n) ==
    IF n = 0 THEN Num(0)
    ELSE FAdd(TotalHoldingValue(st, tks, frame, n - 1), HoldingValue(st, tks[n], frame))

\* lines 549-551
PercentAllocation(invested, total_invested) ==
    IF FGt(total_invested, Num(0))
    THEN FMul(FDiv(invested, total_invested), Num(100))
    ELSE Num(0)

\* lines 554-556
PercentReturn(holding_value, invested) ==
    IF FGt(invested, Num(0))
    THEN FMul(FDiv(FSub(holding_value, invested), invested), Num(100))
    ELSE Num(0)

\* lines 509-557: the computed fields of the investment summary
SummaryOf(st, tks, itv, frame) ==
    LET names == {tks[i] : i \in 1..Len(tks)}
        total_invested == TotalInvested(st, tks, itv, frame, Len(tks))
    IN  [final_prices |-> frame[Len(frame)],
         total_invested_per_stock |-> [t \in names |-> InvestedIn(st, t, itv, frame)],
         total_invested |-> total_invested,
         returns |-> [t \in names |->
                        FSub(HoldingValue(st, t, frame), InvestedIn(st, t, itv, frame))],
         total_value |-> FAdd(TotalHoldingValue(st, tks, frame, Len(tks)), Lift(st.total_cash)),
         percent_allocation_per_stock |->
             [t \in names |-> PercentAllocation(InvestedIn(st, t, itv, frame), total_invested)],
         percent_return_per_stock |->
             [t \in names |->
                 PercentReturn(HoldingValue(st, t, frame), InvestedIn(st, t, itv, frame))]]

\* what the benchmark download, reindexed on the frame's dates with forward
\* fill, can hold; a failed download leaves a missing value at every date
SpyValues == {NaN, 0, 2}
\* line 595: pd.Series([None] * len(stock_data)) after a download that raised
SpyFetchFailed(n) == [d \in 1..n |-> None]

SpySeries(n) ==
    {[d \in 1..n |-> v] : v \in SpyValues}
    \cup {[d \in 1..n |-> IF d = 1 THEN NaN ELSE 2]}
    \cup {SpyFetchFailed(n)}

SpyEntry(date, shares, price, cost) ==
    [date |-> date, shares |-> shares, price |-> price, cost |-> cost]

\* a benchmark that starts without capital
InitialBenchmarkEmpty(total_invested) ==
    [spy_shares |-> Num(0), spy_cash |-> Num(0), spy_invested |-> Num(0),
     spy_investment_log |-> <<>>]

\* lines 599-602
InitialBenchmark(total_invested) ==
    [spy_shares |-> Num(0), spy_cash |-> total_invested, spy_invested |-> Num(0),
     spy_investment_log |-> <<>>]

\* lines 606-616
SingleShotBenchmark(total_invested, spy) ==
    LET b == InitialBenchmark(total_invested)
        spy_price == Lift(spy[1])
    IN  IF FIsNaN(spy_price) THEN b
        ELSE LET spy_shares == FFloorDiv(b.spy_cash, spy_price)
                 spy_invested == FMul(spy_shares, spy_price)
             IN  [spy_shares |-> spy_shares,
                  spy_cash |-> FSub(b.spy_cash, spy_invested),
                  spy_invested |-> spy_invested,
                  spy_investment_log |->
                      <<SpyEntry(1, spy_shares, spy[1], spy_invested)>>]

\* lines 620-633: the dates up to number d
RECURSIVE PeriodicBenchmark(_, _, _, _)
PeriodicBenchmark(total_invested, spy, n, d) ==
    IF d = 0 THEN InitialBenchmark(total_invested)
    ELSE LET b == PeriodicBenchmark(total_invested, spy, n, d - 1)
             dca_amount == FDiv(total_invested, Num(n))
             spy_price == Lift(spy[d])
         IN  IF FIsNaN(spy_price) THEN b
             ELSE LET shares == FFloorDiv(dca_amount, spy_price)
                      cost == FMul(shares, spy_price)
                  IN  [spy_shares |-> FAdd(b.spy_shares, shares),
                       spy_cash |-> FSub(b.spy_cash, cost),
                       spy_invested |-> FAdd(b.spy_invested, cost),
                       spy_investment_log |->
                           Append(b.spy_investment_log, SpyEntry(d, shares, spy[d], cost))]

\* lines 599-633
Benchmark(total_invested, itv, spy) ==
    IF itv = "single_shot"
    THEN SingleShotBenchmark(total_invested, spy)
    ELSE PeriodicBenchmark(total_invested, spy, Len(spy), Len(spy))

\* pd.isna
IsNA(p) == p = NaN \/ p = None

\* lines 644-649: the sum over the first n positions of the ticker list
RECURSIVE PortValue(_, _, _, _)
PortValue(running_holdings, tks, row, n) ==
    IF n = 0 THEN Num(0)
    ELSE IF IsNA(row[tks[n]]) THEN PortValue(running_holdings, tks, row, n - 1)
    ELSE FAdd(PortValue(running_holdings, tks, row, n - 1),
              FMul(Lift(running_holdings[tks[n]]), Lift(row[tks[n]])))

\* JSON null
Null == <<>>

\* a benchmark value computed whatever the price is
SpyValOfAnyPrice(b, spy_price) == FAdd(FMul(b.spy_shares, Lift(spy_price)), b.spy_cash)

\* lines 658-660
SpyVal(b, spy_price) ==
    IF IsNA(spy_price) THEN Null
    ELSE FAdd(FMul(b.spy_shares, Lift(spy_price)), b.spy_cash)

\* lines 637-669: running_holdings is a copy of the final holdings
PerformanceData(hold, tks, frame, spy, b) ==
    [d \in 1..Len(frame) |->
        [date |-> d,
         portfolio |-> PortValue(hold, tks, frame[d], Len(tks)),
         spy |-> SpyVal(b, spy[d])]]

(***************************************************************************)
(* SpecSim: the purchase loops, one iteration per step                     *)
(***************************************************************************)
\* no market_analysis_v2 call is under way
V2Off == v2_pc = "off" /\ retry = <<>> /\ fred = <<>> /\ exa = <<>> /\ step_output = <<>>

\* one request only
Alone == cur = 1 /\ suspended = <<>>

TransportIdle ==
    /\ Alone
    /\ gpc = "idle" /\ stream = <<>> /\ event_queue = <<>> /\ emitted = <<>>
    /\ use_v2_workflow = FALSE /\ agent_task = "none" /\ text_pos = 0
    /\ input_messages = <<>>

PipelineIdle ==
    /\ ppc = "idle" /\ stages = <<>> /\ response = <<>> /\ chat_ret = "none"
    /\ messages = <<>> /\ tool_logs = <<>> /\ available_cash = 0
    /\ investment_portfolio = <<>> /\ investment_summary = <<>> /\ be_stock_data = <<>>
    /\ be_arguments = <<>> /\ fetch = <<>> /\ insights = <<>>

\* a request for 1000 dollars of one ticker priced 100 at the first date
ScenarioFrames ==
    {<<[AAPL |-> 100, MSFT |-> 100]>>,
     <<[AAPL |-> 100, MSFT |-> 100], [AAPL |-> 125, MSFT |-> NaN]>>}

\* a request for two symbols, one the beginning of the other
PrefixTickerLists == {<<"A", "AAPL">>, <<"AAPL", "A">>}
PrefixFrames ==
    {<<[A |-> 2, AAPL |-> 3, MSFT |-> 2]>>,
     <<[A |-> 2, AAPL |-> 3, MSFT |-> 2], [A |-> 3, AAPL |-> 2, MSFT |-> 2]>>}

SimInit ==
    /\ TransportIdle
    /\ PipelineIdle
    /\ V2Off
    /\ sim_pc = "loop"
    /\ \/ /\ tickers \in TickerLists
          /\ amounts \in [1..Len(tickers) -> AmountValues]
          /\ stock_data \in Frames
          /\ start_cash \in CashValues
       \/ /\ tickers = <<"AAPL">>
          /\ amounts = <<1000>>
          /\ stock_data \in ScenarioFrames
          /\ start_cash \in {None, 1000}
       \/ /\ tickers \in PrefixTickerLists
          /\ amounts \in {<<5, 5>>, <<3, 5>>}
          /\ stock_data \in PrefixFrames
          /\ start_cash \in {None, 10}
    /\ interval \in Intervals
    /\ sim_date = 1
    /\ sim_idx = 1
    /\ total_cash = StartCash(start_cash, amounts)
    /\ holdings = [t \in {tickers[i] : i \in 1..Len(tickers)} |-> 0]
    /\ investment_log = <<>>
    /\ add_funds_needed = FALSE
    /\ add_funds_dates = <<>>
    /\ sim_summary = <<>>
    /\ spy_prices = <<>>
    /\ benchmark = <<>>
    /\ performanceData = <<>>

\* lines 433-475: one pass of `for idx, ticker in enumerate(tickers)`
SingleShotStep ==
    /\ sim_pc = "loop"
    /\ interval = "single_shot"
    /\ SetSimState(SingleShotIter(SimState, sim_idx, tickers, amounts, stock_data[1], 1))
    /\ IF sim_idx < Len(tickers)
       THEN sim_idx' = sim_idx + 1 /\ sim_pc' = sim_pc
       ELSE sim_idx' = sim_idx /\ sim_pc' = "done"
    /\ UNCHANGED <<tickers, amounts, interval, stock_data, start_cash, sim_date>>
    /\ UNCHANGED <<sim_summary, spy_prices, benchmark, performanceData>>
    /\ UNCHANGED <<transport_vars, pipeline_vars, v2_vars, req_vars>>

\* lines 480-505: one pass of the inner loop of `for date, row in stock_data.iterrows()`
PeriodicStep ==
    /\ sim_pc = "loop"
    /\ interval # "single_shot"
    /\ SetSimState(PeriodicIter(SimState, sim_idx, tickers, stock_data[sim_date], sim_date))
    /\ IF sim_idx < Len(tickers)
       THEN sim_idx' = sim_idx + 1 /\ sim_date' = sim_date /\ sim_pc' = sim_pc
       ELSE IF sim_date < Len(stock_data)
       THEN sim_idx' = 1 /\ sim_date' = sim_date + 1 /\ sim_pc' = sim_pc
       ELSE sim_idx' = sim_idx /\ sim_date' = sim_date /\ sim_pc' = "done"
    /\ UNCHANGED <<tickers, amounts, interval, stock_data, start_cash>>
    /\ UNCHANGED <<sim_summary, spy_prices, benchmark, performanceData>>
    /\ UNCHANGED <<transport_vars, pipeline_vars, v2_vars, req_vars>>

\* lines 509-574: the summary of the finished loops
SummaryStep ==
    /\ sim_pc = "done"
    /\ sim_summary' = <<SummaryOf(SimState, tickers, interval, stock_data)>>
    /\ sim_pc' = "summarized"
    /\ UNCHANGED <<tickers, amounts, interval, stock_data, start_cash, sim_date, sim_idx,
                   total_cash, holdings, investment_log, add_funds_needed, add_funds_dates,
                   spy_prices, benchmark, performanceData>>
    /\ UNCHANGED <<transport_vars, pipeline_vars, v2_vars, req_vars>>

\* lines 579-672: the benchmark download (or its failure), the benchmark
\* simulation and the chart series
BenchmarkStep ==
    /\ sim_pc = "summarized"
    /\ \E spy \in SpySeries(Len(stock_data)) :
          LET b == Benchmark(sim_summary[1].total_invested, interval, spy)
          IN  /\ spy_prices' = spy
              /\ benchmark' = <<b>>
              /\ performanceData' = PerformanceData(holdings, tickers, stock_data, spy, b)
    /\ sim_pc' = "benchmarked"
    /\ UNCHANGED <<tickers, amounts, interval, stock_data, start_cash, sim_date, sim_idx,
                   total_cash, holdings, investment_log, add_funds_needed, add_funds_dates,
                   sim_summary>>
    /\ UNCHANGED <<transport_vars, pipeline_vars, v2_vars, req_vars>>

SimNext ==
    \/ SingleShotStep
    \/ PeriodicStep
    \/ SummaryStep
    \/ BenchmarkStep

SpecSim == SimInit /\ [][SimNext]_vars

(***************************************************************************)
(* cash_allocation as a whole: the loops run to their end                  *)
(***************************************************************************)
RECURSIVE SingleShotLoop(_, _, _, _, _)
SingleShotLoop(st, idx, tks, amts, row) ==
    IF idx > Len(tks) THEN st
    ELSE SingleShotLoop(SingleShotIter(st, idx, tks, amts, row, 1), idx + 1, tks, amts, row)

RECURSIVE PeriodicLoop(_, _, _, _, _)
PeriodicLoop(st, date, i, tks, frame) ==
    IF date > Len(frame) THEN st
    ELSE IF i > Len(tks) THEN PeriodicLoop(st, date + 1, 1, tks, frame)
    ELSE PeriodicLoop(PeriodicIter(st, i, tks, frame[date], date), date, i + 1, tks, frame)

\* Steps 5-15 on a frame with at least one row
RunPurchases(tks, amts, itv, frame, cash) ==
    IF itv = "single_shot"
    THEN SingleShotLoop(InitialSim(tks, amts, cash), 1, tks, amts, frame[1])
    ELSE PeriodicLoop(InitialSim(tks, amts, cash), 1, 1, tks, frame)

\* lines 677-682: the summary message before the portfolio value and the
\* returns are appended to it, line by line; a shortfall line shows the date,
\* the ticker, the price and the cash of its tuple
MsgLine(line, of) == [line |-> line, of |-> of]
msg(st) ==
    IF st.add_funds_needed
    THEN <<MsgLine("Some investments could not be made due to insufficient funds", <<>>)>>
         \o [j \in 1..Len(st.add_funds_dates) |->
                MsgLine("not enough cash for", st.add_funds_dates[j])]
    ELSE <<MsgLine("All investments were made successfully", <<>>)>>

\* Step 19 and 29: the summary stored in the context (the fields the purchase
\* loops decide, and whether the benchmark series holds values)
InvestmentSummary(st, spy_fetched) ==
    [holdings |-> st.holdings, cash |-> st.total_cash,
     investment_log |-> st.investment_log,
     add_funds_needed |-> st.add_funds_needed,
     add_funds_dates |-> st.add_funds_dates,
     spy |-> spy_fetched]

(***************************************************************************)
(* stock_analysis.py: the pipeline task, one action per stretch of code    *)
(* between two awaits                                                      *)
(***************************************************************************)
\* emit_event: put_nowait on the unbounded queue, never refused
EmitAll(events) ==
    /\ event_queue' = event_queue \o events
    /\ emitted' = emitted \o events

\* a stage's tool log entry; its uuid is modelled by the stage's name
ToolLog(id) == [id |-> id, status |-> "processing"]

\* an index that counts the entries from one
LastLogIndexFromOne(logs) == Len(logs)

\* index = len(tool_logs) - 1
LastLogIndex(logs) == Len(logs) - 1

\* mutant: the guard lets a message without tool calls and without text through
LastHasNoToolCallsButText ==
    Last(messages).tool_calls.none /\ Last(messages).content # <<>>

\* messages[-1].tool_calls is None
LastHasNoToolCalls == Last(messages).tool_calls.none

Running == agent_task = "running" /\ ~use_v2_workflow

\* an exception leaves the stage: the workflow run, and so the task, fails
StageRaises ==
    /\ agent_task' = "failed"
    /\ ppc' = "failed"

\* chat, lines 143-171
ChatStart ==
    /\ Running /\ ppc = "chat"
    /\ stages' = Append(stages, "chat")
    /\ tool_logs' = Append(tool_logs, ToolLog("chat"))
    /\ EmitAll(<<AddLog("chat")>>)
    /\ ppc' = "chat_llm"
    /\ UNCHANGED <<response, chat_ret, messages, available_cash, investment_portfolio,
                   investment_summary, be_stock_data, be_arguments, fetch, insights>>
    /\ UNCHANGED <<gpc, stream, use_v2_workflow, agent_task, text_pos, input_messages>>
    /\ UNCHANGED <<sim_vars, v2_vars, req_vars>>

\* chat, lines 175-206 and, when the completion raises, the handler of lines
\* 233-239: it reads response.id while response is unbound, so chat raises
ChatLLM ==
    /\ Running /\ ppc = "chat_llm"
    /\ messages' = [messages EXCEPT ![1].content = <<"prompt", "portfolio">>]
    /\ \/ /\ StageRaises
          /\ chat_ret' = "UnboundLocalError"
          /\ EmitAll(<<>>)
          /\ UNCHANGED response
       \/ \E r \in ChatResponses :
             /\ response' = <<r>>
             /\ EmitAll(<<CompleteLog(LastLogIndex(tool_logs))>>)
             /\ ppc' = "chat_result"
             /\ UNCHANGED <<chat_ret, agent_task>>
    /\ UNCHANGED <<stages, tool_logs, available_cash, investment_portfolio,
                   investment_summary, be_stock_data, be_arguments, fetch, insights>>
    /\ UNCHANGED <<gpc, stream, use_v2_workflow, text_pos, input_messages>>
    /\ UNCHANGED <<sim_vars, v2_vars, req_vars>>

\* chat, lines 208-231, and the handler of lines 233-239 with response bound
ChatResult ==
    /\ Running /\ ppc = "chat_result"
    /\ LET r == response[1]
       IN  CASE r.kind = "tool_calls" ->
                  /\ messages' = Append(messages, AssistantMessage(<<>>,
                        ToolCalls(<<ToolCall("call_extract",
                            "extract_relevant_data_from_user_prompt", r.arguments)>>)))
                  /\ chat_ret' = "additional_data"
             [] r.kind = "text" ->
                  /\ messages' = Append(messages, AssistantMessage(r.content, NoToolCalls))
                  /\ chat_ret' = "additional_data"
             [] OTHER ->
                  /\ messages' = Append(messages, AssistantMessage(<<>>, NoToolCalls))
                  /\ chat_ret' = "end"
    /\ ppc' = "simultion"
    /\ UNCHANGED <<stages, response, tool_logs, available_cash, investment_portfolio,
                   investment_summary, be_stock_data, be_arguments, fetch, insights>>
    /\ UNCHANGED transport_vars
    /\ UNCHANGED <<sim_vars, v2_vars, req_vars>>

\* simultion, lines 249-279
SimultionStart ==
    /\ Running /\ ppc = "simultion"
    /\ stages' = Append(stages, "simultion")
    /\ IF LastHasNoToolCalls
       THEN /\ ppc' = "cash_allocation"
            /\ UNCHANGED <<tool_logs, event_queue, emitted>>
       ELSE /\ tool_logs' = Append(tool_logs, ToolLog("simultion"))
            /\ EmitAll(<<AddLog("simultion")>>)
            /\ ppc' = "sim_portfolio"
    /\ UNCHANGED <<response, chat_ret, messages, available_cash, investment_portfolio,
                   investment_summary, be_stock_data, be_arguments, fetch, insights>>
    /\ UNCHANGED <<gpc, stream, use_v2_workflow, agent_task, text_pos, input_messages>>
    /\ UNCHANGED <<sim_vars, v2_vars, req_vars>>

\* int(s) and str(n) on decimal digits
Digits == <<"0", "1", "2", "3", "4", "5", "6", "7", "8", "9">>

RECURSIVE ParseInt(_)
ParseInt(s) ==
    IF s = <<>> THEN 0
    ELSE 10 * ParseInt(SubSeq(s, 1, Len(s) - 1))
         + ((CHOOSE n \in 1..10 : Digits[n] = Last(s)) - 1)

RECURSIVE FormatInt(_)
FormatInt(n) ==
    IF n < 10 THEN <<Digits[n + 1]>>
    ELSE FormatInt(n \div 10) \o <<Digits[(n % 10) + 1]>>

\* a clamp that also resets a date exactly four years back
ClampDateFromFour(investment_date, current_year) ==
    IF current_year - ParseInt(SubSeq(investment_date, 1, 4)) >= 4
    THEN FormatInt(current_year - 4) \o <<"-", "0", "1", "-", "0", "1">>
    ELSE investment_date

\* lines 319-321: the start date of the download
ClampDate(investment_date, current_year) ==
    IF current_year - ParseInt(SubSeq(investment_date, 1, 4)) > 4
    THEN FormatInt(current_year - 4) \o <<"-", "0", "1", "-", "0", "1">>
    ELSE investment_date

\* pairs in the reverse of the request's order
PortfolioPairsReversed(arguments) ==
    [i \in 1..Len(arguments.ticker_symbols) |->
        [ticker |-> arguments.ticker_symbols[Len(arguments.ticker_symbols) + 1 - i],
         amount |-> arguments.amount_of_dollars_to_be_invested[
                        Len(arguments.ticker_symbols) + 1 - i]]]

\* the {ticker, amount} pairs of lines 287-295
PortfolioPairs(arguments) ==
    [i \in 1..Len(arguments.ticker_symbols) |->
        [ticker |-> arguments.ticker_symbols[i],
         amount |-> arguments.amount_of_dollars_to_be_invested[i]]]

\* simultion, lines 283-310
SimultionPortfolio ==
    /\ Running /\ ppc = "sim_portfolio"
    /\ IF Last(messages).tool_calls.calls = <<>>
       THEN \* tool_calls[0] of line 283 raises
            /\ StageRaises
            /\ EmitAll(<<>>)
            /\ UNCHANGED investment_portfolio
       ELSE LET arguments == Last(messages).tool_calls.calls[1].arguments
            IN  /\ investment_portfolio' = PortfolioPairs(arguments)
                /\ EmitAll(<<ReplacePortfolio(PortfolioPairs(arguments))>>)
                /\ ppc' = "sim_fetch"
                /\ UNCHANGED agent_task
    /\ UNCHANGED <<stages, response, chat_ret, messages, tool_logs, available_cash,
                   investment_summary, be_stock_data, be_arguments, fetch, insights>>
    /\ UNCHANGED <<gpc, stream, use_v2_workflow, text_pos, input_messages>>
    /\ UNCHANGED <<sim_vars, v2_vars, req_vars>>

\* simultion, lines 313-357: the download returns a frame or raises
SimultionFetch ==
    /\ Running /\ ppc = "sim_fetch"
    /\ \E current_year \in CurrentYears :
          LET investment_date == Last(messages).tool_calls.calls[1].arguments.investment_date
          IN  fetch' = <<[current_year |-> current_year,
                          investment_date |-> investment_date,
                          start |-> ClampDate(investment_date, current_year)]>>
    /\ \/ /\ StageRaises
          /\ EmitAll(<<>>)
          /\ UNCHANGED <<be_stock_data, be_arguments>>
       \/ \E frame \in DownloadedFrames :
             /\ be_stock_data' = <<frame>>
             /\ be_arguments' = <<Last(messages).tool_calls.calls[1].arguments>>
             /\ EmitAll(<<CompleteLog(LastLogIndex(tool_logs))>>)
             /\ ppc' = "cash_allocation"
             /\ UNCHANGED agent_task
    /\ UNCHANGED <<stages, response, chat_ret, messages, tool_logs, available_cash,
                   investment_portfolio, investment_summary, insights>>
    /\ UNCHANGED <<gpc, stream, use_v2_workflow, text_pos, input_messages>>
    /\ UNCHANGED <<sim_vars, v2_vars, req_vars>>

\* cash_allocation, lines 368-398
CashAllocationStart ==
    /\ Running /\ ppc = "cash_allocation"
    /\ stages' = Append(stages, "cash_allocation")
    /\ IF LastHasNoToolCalls
       THEN /\ ppc' = "gather_insights"
            /\ UNCHANGED <<tool_logs, event_queue, emitted>>
       ELSE /\ tool_logs' = Append(tool_logs, ToolLog("cash_allocation"))
            /\ EmitAll(<<AddLog("cash_allocation")>>)
            /\ ppc' = "alloc_run"
    /\ UNCHANGED <<response, chat_ret, messages, available_cash, investment_portfolio,
                   investment_summary, be_stock_data, be_arguments, fetch, insights>>
    /\ UNCHANGED <<gpc, stream, use_v2_workflow, agent_task, text_pos, input_messages>>
    /\ UNCHANGED <<sim_vars, v2_vars, req_vars>>

\* cash_allocation, lines 401-735: stock_data.index[0] and stock_data.iloc[-1]
\* raise on a frame without rows; the SPY download may fail and is caught
CashAllocationRun ==
    /\ Running /\ ppc = "alloc_run"
    /\ LET frame == be_stock_data[1]
           args == be_arguments[1]
       IN  IF frame = <<>>
           THEN /\ StageRaises
                /\ EmitAll(<<>>)
                /\ UNCHANGED <<messages, available_cash, investment_summary>>
           ELSE \E spy_fetched \in BOOLEAN :
                LET st == RunPurchases(args.ticker_symbols,
                                       args.amount_of_dollars_to_be_invested,
                                       args.interval_of_investment, frame, available_cash)
                    summary == InvestmentSummary(st, spy_fetched)
                IN  /\ investment_summary' = <<summary>>
                    /\ available_cash' = st.total_cash
                    /\ messages' = messages \o
                         <<ToolMessage(Last(messages).tool_calls.calls[1].id),
                           AssistantMessage(<<>>, ToolCalls(<<ToolCall("call_render",
                               "render_standard_charts_and_table",
                               [investment_summary |-> summary])>>))>>
                    /\ EmitAll(<<CompleteLog(LastLogIndex(tool_logs))>>)
                    /\ ppc' = "gather_insights"
                    /\ UNCHANGED agent_task
    /\ UNCHANGED <<stages, response, chat_ret, tool_logs, investment_portfolio,
                   be_stock_data, be_arguments, fetch, insights>>
    /\ UNCHANGED <<gpc, stream, use_v2_workflow, text_pos, input_messages>>
    /\ UNCHANGED <<sim_vars, v2_vars, req_vars>>

\* gather_insights, lines 743-775; with no tool calls it returns the context
\* at once and the workflow run ends
GatherInsightsStart ==
    /\ Running /\ ppc = "gather_insights"
    /\ stages' = Append(stages, "gather_insights")
    /\ IF LastHasNoToolCalls
       THEN /\ ppc' = "returned"
            /\ agent_task' = "done"
            /\ UNCHANGED <<tool_logs, event_queue, emitted>>
       ELSE /\ tool_logs' = Append(tool_logs, ToolLog("gather_insights"))
            /\ EmitAll(<<AddLog("gather_insights")>>)
            /\ ppc' = "insights_llm"
            /\ UNCHANGED agent_task
    /\ UNCHANGED <<response, chat_ret, messages, available_cash, investment_portfolio,
                   investment_summary, be_stock_data, be_arguments, fetch, insights>>
    /\ UNCHANGED <<gpc, stream, use_v2_workflow, text_pos, input_messages>>
    /\ UNCHANGED <<sim_vars, v2_vars, req_vars>>

\* a merge that writes the insights over every key
WithInsightsOverAll(arguments, value) ==
    [k \in DOMAIN arguments \cup {"insights"} |-> value]

\* a merge that keeps only the insights
WithInsightsOnly(arguments, value) == [k \in {"insights"} |-> value]

\* args_dict["insights"] = ...: the decoded arguments with one more key
WithInsights(arguments, value) ==
    [k \in DOMAIN arguments \cup {"insights"} |->
        IF k = "insights" THEN value ELSE arguments[k]]

\* gather_insights, lines 778-826: the completion selects the tool, answers in
\* text, or raises (nothing catches it)
GatherInsightsLLM ==
    /\ Running /\ ppc = "insights_llm"
    /\ \/ /\ StageRaises
          /\ EmitAll(<<>>)
          /\ UNCHANGED <<messages, insights>>
       \/ /\ \/ /\ messages' = [messages EXCEPT ![Len(messages)].tool_calls.calls[1].arguments =
                                   WithInsights(@, <<"bull", "bear">>)]
                /\ UNCHANGED insights
             \/ /\ insights' = <<"empty">>
                /\ UNCHANGED messages
          /\ EmitAll(<<CompleteLog(LastLogIndex(tool_logs))>>)
          /\ ppc' = "insights_return"
          /\ UNCHANGED agent_task
    /\ UNCHANGED <<stages, response, chat_ret, tool_logs, available_cash,
                   investment_portfolio, investment_summary, be_stock_data, be_arguments, fetch>>
    /\ UNCHANGED <<gpc, stream, use_v2_workflow, text_pos, input_messages>>
    /\ UNCHANGED <<sim_vars, v2_vars, req_vars>>

\* gather_insights, lines 829-831: the last stage returns, the run is done
GatherInsightsReturn ==
    /\ Running /\ ppc = "insights_return"
    /\ ppc' = "returned"
    /\ agent_task' = "done"
    /\ UNCHANGED <<stages, response, chat_ret, messages, tool_logs, available_cash,
                   investment_portfolio, investment_summary, be_stock_data, be_arguments, fetch,
                   insights>>
    /\ UNCHANGED <<gpc, stream, event_queue, emitted, use_v2_workflow, text_pos,
                   input_messages>>
    /\ UNCHANGED <<sim_vars, v2_vars, req_vars>>

\* main.py, lines 151-161: the market-analysis workflow emits no event; its
\* run ends with a result or with an exception
MarketAnalysisRun ==
    /\ agent_task = "running" /\ use_v2_workflow /\ ppc = "market_analysis"
    /\ \/ agent_task' = "done" /\ ppc' = "returned"
       \/ StageRaises
    /\ UNCHANGED <<stages, response, chat_ret, messages, tool_logs, available_cash,
                   investment_portfolio, investment_summary, be_stock_data, be_arguments, fetch,
                   insights>>
    /\ UNCHANGED <<gpc, stream, event_queue, emitted, use_v2_workflow, text_pos,
                   input_messages>>
    /\ UNCHANGED <<sim_vars, v2_vars, req_vars>>

\* Workflow(steps=[chat, simultion, cash_allocation, gather_insights]), lines
\* 840-843: the library runs the steps once each, in list order; a value a
\* step returns ("end" included) does not stop the run, an exception does
Pipeline ==
    \/ ChatStart
    \/ ChatLLM
    \/ ChatResult
    \/ SimultionStart
    \/ SimultionPortfolio
    \/ SimultionFetch
    \/ CashAllocationStart
    \/ CashAllocationRun
    \/ GatherInsightsStart
    \/ GatherInsightsLLM
    \/ GatherInsightsReturn
    \/ MarketAnalysisRun

(***************************************************************************)
(* main.py: event_generator, one action per stretch of code between two    *)
(* suspensions (a yield, or the await of line 182)                         *)
(***************************************************************************)
ToolCallStart(id, name) == Event("TOOL_CALL_START", "", id, 0, <<name>>)
ToolCallArgs(id, arguments) == Event("TOOL_CALL_ARGS", "", id, 0, <<arguments>>)
ToolCallEnd(id) == Event("TOOL_CALL_END", "", id, 0, <<>>)
TextMessageStart(id) == Event("TEXT_MESSAGE_START", "", id, 0, <<>>)
TextMessageContent(id, delta) == Event("TEXT_MESSAGE_CONTENT", "", id, 0, delta)
TextMessageEnd(id) == Event("TEXT_MESSAGE_END", "", id, 0, <<>>)

\* "Something went wrong! Please try again.": one text no assistant text equals
ErrorText == <<0>>

\* n_parts of line 256
NParts == 100

Max(a, b) == IF a >= b THEN a ELSE b
Min(a, b) == IF a <= b THEN a ELSE b

\* lines 257-268: the chunks of a non-empty text
PartLength(content) == Max(1, Len(content) \div NParts)
SlicedParts(content) ==
    LET n == PartLength(content)
        count == (Len(content) + n - 1) \div n
    IN  [k \in 1..count |-> SubSeq(content, (k - 1) * n + 1, Min(k * n, Len(content)))]
\* a merge that keeps the first n_parts slices and drops the rest
PartsCut(content) ==
    LET parts == SlicedParts(content)
    IN  IF Len(parts) > NParts THEN SubSeq(parts, 1, NParts) ELSE parts

Parts(content) ==
    LET parts == SlicedParts(content)
    IN  IF Len(parts) > NParts
        THEN SubSeq(parts, 1, NParts - 1)
                 \o <<SubSeq(content, (NParts - 1) * PartLength(content) + 1, Len(content))>>
        ELSE parts

\* lines 144-146: a market-analysis keyword in the latest user message (a
\* message is modelled by the keywords and other words it contains)
MarketKeywords == {"market analysis", "fed", "inflation", "economic", "news analysis"}
UseV2(msgs) ==
    /\ msgs # <<>>
    /\ Last(msgs).role = "user"
    /\ \E i \in 1..Len(Last(msgs).content) : Last(msgs).content[i] \in MarketKeywords

Yield(event) == stream' = Append(stream, event)

\* a check that also passes when the queue is empty
TaskDoneOrQueueEmpty == agent_task \in {"done", "failed"} \/ event_queue = <<>>

\* agent_task.done()
TaskDone == agent_task \in {"done", "failed"}

\* lines 115-121
GenRunStarted ==
    /\ gpc = "start"
    /\ Yield(RunStarted)
    /\ gpc' = "snapshot"
    /\ UNCHANGED <<event_queue, emitted, use_v2_workflow, agent_task, text_pos, input_messages>>
    /\ UNCHANGED <<pipeline_vars, sim_vars, v2_vars, req_vars>>

\* lines 125-137
GenSnapshot ==
    /\ gpc = "snapshot"
    /\ Yield(StateSnapshot)
    /\ gpc' = "create_task"
    /\ UNCHANGED <<event_queue, emitted, use_v2_workflow, agent_task, text_pos, input_messages>>
    /\ UNCHANGED <<pipeline_vars, sim_vars, v2_vars, req_vars>>

\* lines 141-175: the routing decision and asyncio.create_task
GenCreateTask ==
    /\ gpc = "create_task"
    /\ use_v2_workflow' = UseV2(input_messages)
    /\ agent_task' = "running"
    /\ ppc' = IF UseV2(input_messages) THEN "market_analysis" ELSE "chat"
    /\ tool_logs' = <<>>
    /\ gpc' = "drain"
    /\ UNCHANGED <<stream, event_queue, emitted, text_pos, input_messages>>
    /\ UNCHANGED <<stages, response, chat_ret, messages, available_cash, investment_portfolio,
                   investment_summary, be_stock_data, be_arguments, fetch, insights>>
    /\ UNCHANGED <<sim_vars, v2_vars, req_vars>>

\* lines 182-183: the get returns an event, which is sent on
DrainGet ==
    /\ gpc = "drain"
    /\ event_queue # <<>>
    /\ Yield(Head(event_queue))
    /\ event_queue' = Tail(event_queue)
    /\ UNCHANGED <<gpc, emitted, use_v2_workflow, agent_task, text_pos, input_messages>>
    /\ UNCHANGED <<pipeline_vars, sim_vars, v2_vars, req_vars>>

\* line 182: the queue stayed empty for the timeout; wait_for gives up the get
\* and will raise TimeoutError when the generator is next run. The event loop
\* may run the pipeline task before that (the model keeps no clock: any number
\* of its steps), and what it puts then stays in the queue.
DrainTimeout ==
    /\ gpc = "drain"
    /\ event_queue = <<>>
    /\ gpc' = "timeout"
    /\ UNCHANGED <<stream, event_queue, emitted, use_v2_workflow, agent_task, text_pos,
                   input_messages>>
    /\ UNCHANGED <<pipeline_vars, sim_vars, v2_vars, req_vars>>

\* lines 184-188: the generator runs again with the TimeoutError
DrainCheck ==
    /\ gpc = "timeout"
    /\ gpc' = IF TaskDone THEN "reset" ELSE "drain"
    /\ UNCHANGED <<stream, event_queue, emitted, use_v2_workflow, agent_task, text_pos,
                   input_messages>>
    /\ UNCHANGED <<pipeline_vars, sim_vars, v2_vars, req_vars>>

\* lines 192-197
GenReset ==
    /\ gpc = "reset"
    /\ Yield(ResetLogs)
    /\ gpc' = "result"
    /\ UNCHANGED <<event_queue, emitted, use_v2_workflow, agent_task, text_pos, input_messages>>
    /\ UNCHANGED <<pipeline_vars, sim_vars, v2_vars, req_vars>>

\* agent_task.result().step_responses[-1].content['messages'] raises when the
\* task raised, and when the last step's content is the market-analysis
\* agent's answer, which has no 'messages'
ResultRaises == agent_task = "failed" \/ use_v2_workflow

\* lines 201-247: the first event of the result, or, with a last message that
\* is no assistant message, RUN_FINISHED at once (lines 302-308)
GenResult ==
    /\ gpc = "result"
    /\ IF ResultRaises
       THEN /\ gpc' = "crashed"
            /\ UNCHANGED stream
       ELSE LET m == Last(messages)
            IN  IF m.role = "assistant"
                THEN IF ~m.tool_calls.none /\ m.tool_calls.calls # <<>>
                     THEN /\ Yield(ToolCallStart(m.tool_calls.calls[1].id,
                                                 m.tool_calls.calls[1].name))
                          /\ gpc' = "tool_args"
                     ELSE /\ Yield(TextMessageStart("message_id"))
                          /\ gpc' = "text_content"
                ELSE /\ Yield(RunFinished)
                     /\ gpc' = "closed"
    /\ UNCHANGED <<event_queue, emitted, use_v2_workflow, agent_task, text_pos, input_messages>>
    /\ UNCHANGED <<pipeline_vars, sim_vars, v2_vars, req_vars>>

\* lines 219-227
GenToolArgs ==
    /\ gpc = "tool_args"
    /\ Yield(ToolCallArgs(Last(messages).tool_calls.calls[1].id,
                          Last(messages).tool_calls.calls[1].arguments))
    /\ gpc' = "tool_end"
    /\ UNCHANGED <<event_queue, emitted, use_v2_workflow, agent_task, text_pos, input_messages>>
    /\ UNCHANGED <<pipeline_vars, sim_vars, v2_vars, req_vars>>

\* lines 231-236
GenToolEnd ==
    /\ gpc = "tool_end"
    /\ Yield(ToolCallEnd(Last(messages).tool_calls.calls[1].id))
    /\ gpc' = "finish"
    /\ UNCHANGED <<event_queue, emitted, use_v2_workflow, agent_task, text_pos, input_messages>>
    /\ UNCHANGED <<pipeline_vars, sim_vars, v2_vars, req_vars>>

\* lines 251-289: the next chunk of the text, or the fixed text for no content
GenTextContent ==
    /\ gpc = "text_content"
    /\ LET content == Last(messages).content
       IN  IF content # <<>>
           THEN /\ Yield(TextMessageContent("message_id", Parts(content)[text_pos + 1]))
                /\ text_pos' = text_pos + 1
                /\ gpc' = IF text_pos + 1 = Len(Parts(content)) THEN "text_end" ELSE gpc
           ELSE /\ Yield(TextMessageContent("message_id", ErrorText))
                /\ gpc' = "text_end"
                /\ UNCHANGED text_pos
    /\ UNCHANGED <<event_queue, emitted, use_v2_workflow, agent_task, input_messages>>
    /\ UNCHANGED <<pipeline_vars, sim_vars, v2_vars, req_vars>>

\* lines 293-298
GenTextEnd ==
    /\ gpc = "text_end"
    /\ Yield(TextMessageEnd("message_id"))
    /\ gpc' = "finish"
    /\ UNCHANGED <<event_queue, emitted, use_v2_workflow, agent_task, text_pos, input_messages>>
    /\ UNCHANGED <<pipeline_vars, sim_vars, v2_vars, req_vars>>

\* lines 302-308
GenRunFinished ==
    /\ gpc = "finish"
    /\ Yield(RunFinished)
    /\ gpc' = "closed"
    /\ UNCHANGED <<event_queue, emitted, use_v2_workflow, agent_task, text_pos, input_messages>>
    /\ UNCHANGED <<pipeline_vars, sim_vars, v2_vars, req_vars>>

Generator ==
    \/ GenRunStarted
    \/ GenSnapshot
    \/ GenCreateTask
    \/ DrainGet
    \/ DrainTimeout
    \/ DrainCheck
    \/ GenReset
    \/ GenResult
    \/ GenToolArgs
    \/ GenToolEnd
    \/ GenTextContent
    \/ GenTextEnd
    \/ GenRunFinished

(***************************************************************************)
(* Spec: one request to /agno-agent                                        *)
(***************************************************************************)
SimOff ==
    /\ sim_pc = "off" /\ tickers = <<>> /\ amounts = <<>> /\ interval = ""
    /\ stock_data = <<>> /\ start_cash = 0 /\ sim_date = 0 /\ sim_idx = 0
    /\ total_cash = 0 /\ holdings = <<>> /\ investment_log = <<>>
    /\ add_funds_needed = FALSE /\ add_funds_dates = <<>>
    /\ sim_summary = <<>> /\ spy_prices = <<>> /\ benchmark = <<>>
    /\ performanceData = <<>>

Init ==
    /\ gpc = "start" /\ stream = <<>> /\ event_queue = <<>> /\ emitted = <<>>
    /\ use_v2_workflow = FALSE /\ agent_task = "none" /\ text_pos = 0
    /\ input_messages \in Conversations
    /\ ppc = "idle" /\ stages = <<>> /\ response = <<>> /\ chat_ret = "none"
    /\ messages = input_messages
    /\ tool_logs = <<>>
    /\ available_cash \in RequestCash
    /\ investment_portfolio = <<>> /\ investment_summary = <<>> /\ be_stock_data = <<>>
    /\ be_arguments = <<>> /\ fetch = <<>> /\ insights = <<>>
    /\ SimOff
    /\ V2Off
    /\ Alone

Next ==
    \/ Generator
    \/ Pipeline

Spec == Init /\ [][Next]_vars

\* the event loop runs every task that can run, and the timer of wait_for fires
SpecFair == Spec /\ WF_vars(Generator) /\ WF_vars(Pipeline)

(***************************************************************************)
(* SpecTwo: two requests to /agno-agent on one event loop                  *)
(***************************************************************************)
\* main.py 100-175: what one call of event_generator and the task it creates
\* own. event_queue (line 103), emit_event (107), agent_task (164) and the
\* additional_data dict (166-173) are locals of the call; messages, tools and
\* state come from the request's own input_data
Frame ==
    [gpc |-> gpc, stream |-> stream, event_queue |-> event_queue, emitted |-> emitted,
     use_v2_workflow |-> use_v2_workflow, agent_task |-> agent_task, text_pos |-> text_pos,
     input_messages |-> input_messages,
     ppc |-> ppc, stages |-> stages, response |-> response, chat_ret |-> chat_ret,
     messages |-> messages, tool_logs |-> tool_logs, available_cash |-> available_cash,
     investment_portfolio |-> investment_portfolio,
     investment_summary |-> investment_summary, be_stock_data |-> be_stock_data,
     be_arguments |-> be_arguments, fetch |-> fetch, insights |-> insights]

\* the state of a request that has just been received
NewFrame(conversation, cash) ==
    [gpc |-> "start", stream |-> <<>>, event_queue |-> <<>>, emitted |-> <<>>,
     use_v2_workflow |-> FALSE, agent_task |-> "none", text_pos |-> 0,
     input_messages |-> conversation,
     ppc |-> "idle", stages |-> <<>>, response |-> <<>>, chat_ret |-> "none",
     messages |-> conversation, tool_logs |-> <<>>, available_cash |-> cash,
     investment_portfolio |-> <<>>, investment_summary |-> <<>>, be_stock_data |-> <<>>,
     be_arguments |-> <<>>, fetch |-> <<>>, insights |-> <<>>]

\* a queue at module level, which both requests put to and get from
ResumeSharingQueue(frame) ==
    /\ gpc' = frame.gpc /\ stream' = frame.stream
    /\ event_queue' = event_queue
    /\ emitted' = frame.emitted
    /\ use_v2_workflow' = frame.use_v2_workflow /\ agent_task' = frame.agent_task
    /\ text_pos' = frame.text_pos /\ input_messages' = frame.input_messages
    /\ ppc' = frame.ppc /\ stages' = frame.stages /\ response' = frame.response
    /\ chat_ret' = frame.chat_ret /\ messages' = frame.messages
    /\ tool_logs' = frame.tool_logs /\ available_cash' = frame.available_cash
    /\ investment_portfolio' = frame.investment_portfolio
    /\ investment_summary' = frame.investment_summary
    /\ be_stock_data' = frame.be_stock_data /\ be_arguments' = frame.be_arguments
    /\ fetch' = frame.fetch /\ insights' = frame.insights

\* main.py 100-175: the event loop resumes a coroutine of a request, which
\* finds its own locals, the queue of line 103 among them
Resume(frame) ==
    /\ gpc' = frame.gpc /\ stream' = frame.stream
    /\ event_queue' = frame.event_queue
    /\ emitted' = frame.emitted
    /\ use_v2_workflow' = frame.use_v2_workflow /\ agent_task' = frame.agent_task
    /\ text_pos' = frame.text_pos /\ input_messages' = frame.input_messages
    /\ ppc' = frame.ppc /\ stages' = frame.stages /\ response' = frame.response
    /\ chat_ret' = frame.chat_ret /\ messages' = frame.messages
    /\ tool_logs' = frame.tool_logs /\ available_cash' = frame.available_cash
    /\ investment_portfolio' = frame.investment_portfolio
    /\ investment_summary' = frame.investment_summary
    /\ be_stock_data' = frame.be_stock_data /\ be_arguments' = frame.be_arguments
    /\ fetch' = frame.fetch /\ insights' = frame.insights

\* at an await of one request the event loop runs a coroutine of the other
Switch ==
    /\ suspended # <<>>
    /\ cur' = 3 - cur
    /\ suspended' = Frame
    /\ Resume(suspended)
    /\ UNCHANGED <<sim_vars, v2_vars>>

\* the two requests: the same conversation, different cash
TwoCash == <<10, 20>>
TwoConversation == <<SystemMessage, UserMessage(<<"invest">>)>>

\* what the LLM, the clock and the download do for the two requests
TwoResponses ==
    {[kind |-> "tool_calls",
      arguments |-> [ticker_symbols |-> <<"AAPL">>,
                     amount_of_dollars_to_be_invested |-> <<5>>,
                     interval_of_investment |-> "single_shot",
                     investment_date |-> <<"2", "0", "2", "2", "-", "0", "1", "-", "0", "3">>],
      content |-> <<>>],
     [kind |-> "text", arguments |-> NoArgs, content |-> Text(1)]}
TwoOutcomes ==
    /\ response \in {<<>>} \cup {<<r>> : r \in TwoResponses}
    /\ fetch # <<>> => fetch[1].current_year = 2026
    /\ be_stock_data \in {<<>>, <<<<[AAPL |-> 2, MSFT |-> 3]>>>>}
    /\ investment_summary # <<>> => investment_summary[1].spy
    /\ ppc # "failed"

\* a step of the request whose coroutines are loaded
RequestStep ==
    /\ Generator \/ Pipeline
    /\ TwoOutcomes'

TwoInit ==
    /\ gpc = "start" /\ stream = <<>> /\ event_queue = <<>> /\ emitted = <<>>
    /\ use_v2_workflow = FALSE /\ agent_task = "none" /\ text_pos = 0
    /\ input_messages = TwoConversation
    /\ ppc = "idle" /\ stages = <<>> /\ response = <<>> /\ chat_ret = "none"
    /\ messages = input_messages
    /\ tool_logs = <<>>
    /\ available_cash = TwoCash[1]
    /\ investment_portfolio = <<>> /\ investment_summary = <<>> /\ be_stock_data = <<>>
    /\ be_arguments = <<>> /\ fetch = <<>> /\ insights = <<>>
    /\ SimOff /\ V2Off
    /\ cur = 1
    /\ suspended = NewFrame(TwoConversation, TwoCash[2])

TwoNext ==
    \/ RequestStep
    \/ Switch

SpecTwo == TwoInit /\ [][TwoNext]_vars

(***************************************************************************)
(* SpecText: the transport streams a text result                           *)
(***************************************************************************)
\* The state of a request after the reset event of lines 192-197 when chat
\* answered in text: the pipeline has returned, all four stages were entered,
\* chat's two events were forwarded, and the last message is the assistant's
\* text, here of 1..MaxLongText characters
TextInit ==
    \E n \in 1..MaxLongText :
        /\ gpc = "result"
        /\ stream = <<RunStarted, StateSnapshot, AddLog("chat"), CompleteLog(0), ResetLogs>>
        /\ event_queue = <<>>
        /\ emitted = <<AddLog("chat"), CompleteLog(0)>>
        /\ use_v2_workflow = FALSE /\ agent_task = "done" /\ text_pos = 0
        /\ input_messages = <<SystemMessage, UserMessage(<<"invest">>)>>
        /\ ppc = "returned"
        /\ stages = <<"chat", "simultion", "cash_allocation", "gather_insights">>
        /\ response = <<[kind |-> "text", arguments |-> NoArgs, content |-> Text(n)]>>
        /\ chat_ret = "additional_data"
        /\ messages = <<Message("system", <<"prompt", "portfolio">>, NoToolCalls, ""),
                        UserMessage(<<"invest">>),
                        AssistantMessage(Text(n), NoToolCalls)>>
        /\ tool_logs = <<ToolLog("chat")>>
        /\ available_cash \in RequestCash
        /\ investment_portfolio = <<>> /\ investment_summary = <<>>
        /\ be_stock_data = <<>> /\ be_arguments = <<>> /\ fetch = <<>> /\ insights = <<>>
        /\ SimOff /\ V2Off /\ Alone

TextNext ==
    \/ GenResult
    \/ GenTextContent
    \/ GenTextEnd
    \/ GenRunFinished

SpecText == TextInit /\ [][TextNext]_vars

(***************************************************************************)
(* market_analysis_v2/tools.py: retry_with_backoff                         *)
(***************************************************************************)
\* what the wrapped function does at its first, second, ... call
CallOutcomes == {"success", "ConnectionError", "ValueError"}
RetryArguments ==
    {[max_attempts |-> n, initial_delay |-> 1, func |-> f] :
        n \in 0..MaxAttempts, f \in [1..(MaxAttempts + 1) -> CallOutcomes]}

\* lines 402-403: the wrapper's locals before the loop
RetryWrapper(arguments) ==
    [max_attempts |-> arguments.max_attempts, func |-> arguments.func,
     attempt |-> 0, delay |-> arguments.initial_delay, last_exception |-> "None",
     calls |-> 0, sleeps |-> <<>>, outcome |-> "running", value |-> "None"]

\* a loop that makes one attempt more than max_attempts
RetryLoopRunsOneMore == retry.attempt < retry.max_attempts + 1

\* line 405: for attempt in range(max_attempts)
RetryLoopRuns == retry.attempt < retry.max_attempts

\* lines 405-415: one pass of the loop: the call, and on an exception the
\* sleep before the next attempt
RetryAttempt ==
    /\ v2_pc = "retry"
    /\ RetryLoopRuns
    /\ LET result == retry.func[retry.calls + 1]
       IN  IF result = "success"
           THEN /\ retry' = [retry EXCEPT !.calls = @ + 1, !.outcome = "returned",
                                          !.value = <<"result of call", retry.calls + 1>>]
                /\ v2_pc' = "retry_done"
           ELSE /\ retry' =
                      IF retry.attempt < retry.max_attempts - 1
                      THEN [retry EXCEPT !.calls = @ + 1, !.last_exception = result,
                                         !.sleeps = Append(@, retry.delay),
                                         !.delay = @ * 2, !.attempt = @ + 1]
                      ELSE [retry EXCEPT !.calls = @ + 1, !.last_exception = result,
                                         !.attempt = @ + 1]
                /\ v2_pc' = v2_pc
    /\ UNCHANGED <<fred, exa, step_output>>
    /\ UNCHANGED <<transport_vars, pipeline_vars, sim_vars, req_vars>>

\* line 417: raise last_exception; raising None is a TypeError
RetryRaise ==
    /\ v2_pc = "retry"
    /\ ~RetryLoopRuns
    /\ retry' = [retry EXCEPT !.outcome = "raised",
                              !.value = IF retry.last_exception = "None" THEN "TypeError"
                                        ELSE retry.last_exception]
    /\ v2_pc' = "retry_done"
    /\ UNCHANGED <<fred, exa, step_output>>
    /\ UNCHANGED <<transport_vars, pipeline_vars, sim_vars, req_vars>>


(***************************************************************************)
(* market_analysis_v2/tools.py: FredDataTools.get_economic_indicators      *)
(***************************************************************************)
\* self.indicators, lines 33-38
Indicators ==
    [DFF |-> "federal_funds_rate", CPIAUCSL |-> "inflation_rate",
     GDP |-> "gdp_growth", UNRATE |-> "unemployment_rate"]

\* self.indicators.get(indicator_id, indicator_id), line 81
SeriesName(indicator_id) ==
    IF indicator_id \in DOMAIN Indicators THEN Indicators[indicator_id] ELSE indicator_id

\* list(self.indicators.keys())
DefaultIndicators == <<"DFF", "CPIAUCSL", "GDP", "UNRATE">>

\* the lists a caller passes: distinct series ids, known ones and one the
\* table does not know; "None" stands for no list
RequestedIds == {"DFF", "GDP", "federal_funds_rate"}
IndicatorLists ==
    {l \in UNION {[1..n -> RequestedIds] : n \in 0..MaxIndicators} :
        \A i, j \in 1..Len(l) : l[i] = l[j] => i = j}

\* what one fetch of a series does: it returns data, raises, or times out
FetchOutcomes == {"data", "error", "timeout"}

\* lines 63-67 and 100: the locals when the tasks have been created
GetEconomicIndicators(indicator_list) ==
    LET indicators_to_fetch ==
            IF indicator_list = <<>> THEN DefaultIndicators ELSE indicator_list
    IN  [indicator_list |-> indicator_list,
         indicators_to_fetch |-> indicators_to_fetch,
         tasks |-> 1..Len(indicators_to_fetch),
         results |-> [name \in {} |-> ""],
         errors |-> <<>>,
         returned |-> <<>>]

\* line 82: results[series_name] = {...}
Store(results, name, indicator_id) ==
    [k \in DOMAIN results \cup {name} |-> IF k = name THEN indicator_id ELSE results[k]]

\* lines 69-97: task number i runs to its end (the tasks finish in any order)
FetchIndicator(i) ==
    /\ v2_pc = "gather"
    /\ i \in fred.tasks
    /\ \E outcome \in FetchOutcomes :
        LET indicator_id == fred.indicators_to_fetch[i]
        IN  fred' =
              IF outcome = "data"
              THEN [fred EXCEPT !.tasks = @ \ {i},
                                !.results = Store(@, SeriesName(indicator_id), indicator_id)]
              ELSE [fred EXCEPT !.tasks = @ \ {i},
                                !.errors = Append(@, <<outcome, indicator_id>>)]
    /\ UNCHANGED <<v2_pc, retry, exa, step_output>>
    /\ UNCHANGED <<transport_vars, pipeline_vars, sim_vars, req_vars>>

\* lines 101-108: gather is over, the dictionary is returned
GetEconomicIndicatorsReturn ==
    /\ v2_pc = "gather"
    /\ fred.tasks = {}
    /\ fred' = [fred EXCEPT !.returned =
                   <<[economic_data |-> fred.results, errors |-> fred.errors,
                      success |-> Cardinality(DOMAIN fred.results) > 0]>>]
    /\ v2_pc' = "economic_data"
    /\ UNCHANGED <<retry, exa, step_output>>
    /\ UNCHANGED <<transport_vars, pipeline_vars, sim_vars, req_vars>>

(***************************************************************************)
(* market_analysis_v2/tools.py: ExaSearchTools.search_portfolio_news       *)
(***************************************************************************)
\* what the Exa search does: it answers with articles (each stands for its
\* portfolio_relevance), raises, or times out
ExaOutcomes ==
    {[raised |-> "None", results |-> r] : r \in {<<>>, <<"low">>, <<"high", "low">>}}
    \cup {[raised |-> e, results |-> <<>>] : e \in {"Exception", "TimeoutError"}}

\* lines 212-269: the dictionary returned for what the search did
NewsResults(outcome) ==
    IF outcome.raised # "None"
    THEN [news_results |-> <<>>, query_used |-> "None", success |-> FALSE,
          error |-> outcome.raised]
    ELSE [news_results |-> outcome.results, query_used |-> "enhanced_query", success |-> TRUE,
          error |-> "None"]

SearchPortfolioNews ==
    /\ v2_pc = "search"
    /\ \E outcome \in ExaOutcomes :
        exa' = [outcome |-> outcome, returned |-> NewsResults(outcome)]
    /\ v2_pc' = "news_analysis"
    /\ UNCHANGED <<retry, fred, step_output>>
    /\ UNCHANGED <<transport_vars, pipeline_vars, sim_vars, req_vars>>

(***************************************************************************)
(* market_analysis_v2/workflow.py: the economic-data and the news step     *)
(***************************************************************************)
\* analysis_plan.get("economic_indicators", ["DFF", "CPIAUCSL"]), line 138
\* a plan without the key is <<>>, a plan with it holds the list
AnalysisPlans == {<<>>} \cup {<<l>> : l \in IndicatorLists}

\* lines 166-172
EconomicDataFailed(e) ==
    [step_name |-> "economic_data", content |-> [error |-> e], success |-> FALSE]

\* lines 130-148: the plan is read, the tools are built, the fetch starts
ExecuteEconomicDataStep ==
    /\ v2_pc = "economic_step"
    /\ \E analysis_plan \in AnalysisPlans, FRED_API_KEY \in BOOLEAN :
        LET indicators == IF analysis_plan = <<>> THEN <<"DFF", "CPIAUCSL">>
                           ELSE analysis_plan[1]
        IN  IF FRED_API_KEY
            THEN /\ fred' = GetEconomicIndicators(indicators)
                 /\ v2_pc' = "gather"
                 /\ UNCHANGED step_output
            ELSE /\ step_output' = EconomicDataFailed("FRED_API_KEY environment variable not set")
                 /\ v2_pc' = "step_done"
                 /\ UNCHANGED fred
    /\ UNCHANGED <<retry, exa>>
    /\ UNCHANGED <<transport_vars, pipeline_vars, sim_vars, req_vars>>

\* lines 370-383
AnalyzeEconomicData(data) ==
    IF DOMAIN data.economic_data = {}
    THEN "No economic data available for analysis"
    ELSE "Economic indicators show"

\* lines 150-172
EconomicDataStepReturn ==
    /\ v2_pc = "economic_data"
    /\ LET economic_data == fred.returned[1]
       IN  step_output' =
             IF ~economic_data.success
             THEN EconomicDataFailed("Failed to fetch economic data")
             ELSE [step_name |-> "economic_data",
                   content |-> [raw_data |-> economic_data.economic_data,
                                interpretation |-> AnalyzeEconomicData(economic_data),
                                errors |-> economic_data.errors],
                   success |-> TRUE]
    /\ v2_pc' = "step_done"
    /\ UNCHANGED <<retry, fred, exa>>
    /\ UNCHANGED <<transport_vars, pipeline_vars, sim_vars, req_vars>>

\* an analysis is a text, here with the parts an f-string puts into it
FixedText(text) == [text |-> text, sentiment |-> "", articles |-> 0]

\* a fallback that reports the failure
NewsUnavailableFailed(e) ==
    [step_name |-> "news_analysis",
     content |-> [articles |-> <<>>, analysis |-> FixedText("News analysis unavailable"),
                 error |-> e],
     success |-> FALSE]

\* lines 228-235
NewsUnavailable(e) ==
    [step_name |-> "news_analysis",
     content |-> [articles |-> <<>>, analysis |-> FixedText("News analysis unavailable"),
                 error |-> e],
     success |-> TRUE]

\* lines 185-203: the plan is read and the tools are built
ExecuteNewsAnalysisStep ==
    /\ v2_pc = "news_step"
    /\ \E EXA_API_KEY \in BOOLEAN :
        IF EXA_API_KEY
        THEN /\ v2_pc' = "search"
             /\ UNCHANGED step_output
        ELSE /\ step_output' = NewsUnavailable("EXA_API_KEY environment variable not set")
             /\ v2_pc' = "step_done"
    /\ UNCHANGED <<retry, fred, exa>>
    /\ UNCHANGED <<transport_vars, pipeline_vars, sim_vars, req_vars>>

\* lines 386-400
AnalyzeNewsContent(news_results) ==
    IF news_results.news_results = <<>>
    THEN FixedText("No news articles available for analysis")
    ELSE LET articles == news_results.news_results
             high_relevance == SelectSeq(articles, LAMBDA a : a = "high")
         IN  [text |-> "News sentiment appears {sentiment} with {len(articles)} relevant articles found",
              sentiment |-> IF high_relevance # <<>> THEN "focused on portfolio holdings"
                            ELSE "mixed",
              articles |-> Len(articles)]

\* lines 212-226
NewsAnalysisStepReturn ==
    /\ v2_pc = "news_analysis"
    /\ LET news_results == exa.returned
       IN  step_output' =
             [step_name |-> "news_analysis",
              content |-> [articles |-> news_results.news_results,
                           analysis |-> AnalyzeNewsContent(news_results),
                           query_used |-> news_results.query_used],
              success |-> TRUE]
    /\ v2_pc' = "step_done"
    /\ UNCHANGED <<retry, fred, exa>>
    /\ UNCHANGED <<transport_vars, pipeline_vars, sim_vars, req_vars>>

V2Init ==
    /\ TransportIdle /\ PipelineIdle /\ SimOff
    /\ fred = <<>> /\ exa = <<>> /\ step_output = <<>>
    /\ \/ \E arguments \in RetryArguments : v2_pc = "retry" /\ retry = RetryWrapper(arguments)
       \/ v2_pc \in {"economic_step", "news_step"} /\ retry = <<>>

V2Next ==
    \/ RetryAttempt
    \/ RetryRaise
    \/ ExecuteEconomicDataStep
    \/ \E i \in 1..(MaxIndicators + 3) : FetchIndicator(i)
    \/ GetEconomicIndicatorsReturn
    \/ EconomicDataStepReturn
    \/ ExecuteNewsAnalysisStep
    \/ SearchPortfolioNews
    \/ NewsAnalysisStepReturn

SpecV2 == V2Init /\ [][V2Next]_vars

(***************************************************************************)
(* Claims about one request (Spec, SpecFair)                               *)
(***************************************************************************)
IsPrefix(a, b) == Len(a) <= Len(b) /\ SubSeq(b, 1, Len(a)) = a

IsReset(e) == e.type = "STATE_DELTA" /\ e.op = "reset_logs"
IsPipelineEvent(e) == e.type = "STATE_DELTA" /\ e.op # "reset_logs"
IsResultEvent(e) ==
    e.type \in {"TOOL_CALL_START", "TOOL_CALL_ARGS", "TOOL_CALL_END",
                "TEXT_MESSAGE_START", "TEXT_MESSAGE_CONTENT", "TEXT_MESSAGE_END"}

\* the pipeline's events that reached the client, in stream order
Forwarded == SelectSeq(stream, IsPipelineEvent)

\* the generator is past the loop of lines 179-188
LoopExited ==
    gpc \in {"reset", "result", "tool_args", "tool_end", "text_content", "text_end",
             "finish", "closed", "crashed"}

\* the generator has ended: it returned, or an exception left it
StreamEnded == gpc \in {"closed", "crashed"}

\* C1: every event passed to emit_event is forwarded to the client exactly
\* once and in emission order: what was forwarded is always a prefix of what
\* was emitted, the rest waits in the queue (emit_event never refuses or
\* blocks), and once the draining loop has exited everything emitted has been
\* forwarded.
C1_EveryEventForwardedOnceInOrder ==
    /\ IsPrefix(Forwarded, emitted)
    /\ emitted = Forwarded \o event_queue
    /\ LoopExited => Forwarded = emitted

\* C2: when the draining loop has exited, the pipeline task is done and the
\* event queue is empty.
C2_LoopExitsWithTaskDoneAndQueueEmpty ==
    LoopExited => (TaskDone /\ event_queue = <<>>)

\* C3: the draining loop never exits while the task is running, and once the
\* task has completed normally the loop terminates and RUN_FINISHED is sent.
C3_CompletionLeadsToRunFinished ==
    /\ [](LoopExited => agent_task # "running")
    /\ (agent_task = "done") ~> LoopExited
    /\ (agent_task = "done") ~> (stream # <<>> /\ Last(stream) = RunFinished)

\* C4: every stream of a request, when it has ended, starts with RUN_STARTED,
\* has STATE_SNAPSHOT among its first three events and ends with RUN_FINISHED.
C4_WellFormedStream ==
    StreamEnded =>
        /\ stream # <<>>
        /\ stream[1].type = "RUN_STARTED"
        /\ \E k \in 1..3 : k <= Len(stream) /\ stream[k].type = "STATE_SNAPSHOT"
        /\ Last(stream).type = "RUN_FINISHED"

\* the completion call of chat raised: chat leaves line 185 without a response
LLMCallRaised == ppc = "chat_llm" /\ ppc' # "chat_llm" /\ response' = <<>>

\* C5: when the LLM call of chat raises, chat appends exactly one assistant
\* message with empty content, returns "end", and no exception leaves it.
C5_ChatCatchesLLMError ==
    [][LLMCallRaised =>
          /\ Len(messages') = Len(messages) + 1
          /\ Last(messages') = AssistantMessage(<<>>, NoToolCalls)
          /\ chat_ret' = "end"
          /\ agent_task' = "running"]_vars

\* C6: no exception leaves a stage of the pipeline: its run never fails.
C6_NoStageExceptionEscapes ==
    ~use_v2_workflow => (agent_task # "failed" /\ ppc # "failed")

StageOrder == <<"chat", "simultion", "cash_allocation", "gather_insights">>

\* a step taken by one of the three later stages while the latest message
\* carries no tool calls
LaterStageWithoutToolCalls ==
    /\ ppc \in {"simultion", "cash_allocation", "gather_insights"}
    /\ Last(messages).tool_calls.none

ApplyPatch(logs, e) ==
    IF e.type # "STATE_DELTA" THEN logs
    ELSE IF e.op = "add_log" THEN Append(logs, [id |-> e.id, status |-> "processing"])
    ELSE IF e.op = "complete_log"
    THEN IF e.idx + 1 \in DOMAIN logs
         THEN [logs EXCEPT ![e.idx + 1].status = "completed"]
         ELSE logs
    ELSE IF e.op = "reset_logs" THEN <<>>
    ELSE logs

RECURSIVE ClientLogs(_)
ClientLogs(events) ==
    IF events = <<>> THEN <<>>
    ELSE ApplyPatch(ClientLogs(SubSeq(events, 1, Len(events) - 1)), Last(events))

\* C8: when the reset of /tool_logs is sent, every entry the client was told
\* to add has been set to "completed".
C8_LogsCompletedBeforeReset ==
    \A k \in 1..Len(stream) :
        IsReset(stream[k]) =>
            LET logs == ClientLogs(SubSeq(stream, 1, k - 1))
            IN  \A i \in 1..Len(logs) : logs[i].status = "completed"

ResetPositions == {k \in 1..Len(stream) : IsReset(stream[k])}

\* C9: the reset of /tool_logs is sent exactly once, when the task is done and
\* every emitted event has been forwarded, and before any TOOL_CALL_* or
\* TEXT_MESSAGE_* event.
C9_ResetOnceAfterAllForwarded ==
    /\ Cardinality(ResetPositions) <= 1
    /\ StreamEnded => Cardinality(ResetPositions) = 1
    /\ ResetPositions # {} => (TaskDone /\ Forwarded = emitted)
    /\ \A k \in 1..Len(stream) :
          IsResultEvent(stream[k]) => \E j \in ResetPositions : j < k

\* the year a date string starts with, and the date "<year>-01-01"
YearOf(date) ==
    1000 * ((CHOOSE n \in 1..10 : Digits[n] = date[1]) - 1)
    + 100 * ((CHOOSE n \in 1..10 : Digits[n] = date[2]) - 1)
    + 10 * ((CHOOSE n \in 1..10 : Digits[n] = date[3]) - 1)
    + ((CHOOSE n \in 1..10 : Digits[n] = date[4]) - 1)

FirstOfJanuary(year) ==
    <<Digits[(year \div 1000) + 1], Digits[((year \div 100) % 10) + 1],
      Digits[((year \div 10) % 10) + 1], Digits[(year % 10) + 1],
      "-", "0", "1", "-", "0", "1">>

\* C19: when the investment date's year is more than 4 years before the
\* current year, the start date of the price download is exactly
\* "<current_year-4>-01-01"; otherwise it is the investment date, unchanged;
\* for an investment date not in the future the current year minus the start
\* date's year is then at most 4. In 2026 the date 2019-05-17 is fetched
\* from 2022-01-01.
C19_StartDateClampedToFourYears ==
    fetch # <<>> =>
        LET f == fetch[1]
        IN  /\ f.current_year - YearOf(f.investment_date) > 4 =>
                  f.start = FirstOfJanuary(f.current_year - 4)
            /\ f.current_year - YearOf(f.investment_date) <= 4 =>
                  f.start = f.investment_date
            /\ YearOf(f.investment_date) <= f.current_year =>
                  /\ f.current_year - YearOf(f.start) <= 4
                  /\ f.current_year - YearOf(f.start) >= 0
            /\ (/\ f.current_year = 2026
                /\ f.investment_date = <<"2", "0", "1", "9", "-", "0", "5", "-", "1", "7">>) =>
                  f.start = <<"2", "0", "2", "2", "-", "0", "1", "-", "0", "1">>

\* the download was called for a date more than four years back, and the
\* request went on to the allocation
C19_Witness ==
    /\ fetch # <<>>
    /\ fetch[1].current_year - YearOf(fetch[1].investment_date) > 4
    /\ fetch[1].start # fetch[1].investment_date
    /\ be_stock_data # <<>>

\* the step appends the tool message and the render request
AppendsToolAndRenderMessages ==
    /\ Len(messages') = Len(messages) + 2
    /\ SubSeq(messages', 1, Len(messages)) = messages
    /\ messages'[Len(messages) + 1] =
          Message("tool", <<"extracted">>, NoToolCalls, Last(messages).tool_calls.calls[1].id)
    /\ LET m == messages'[Len(messages) + 2]
       IN  /\ m.role = "assistant"
           /\ Len(m.tool_calls.calls) = 1
           /\ m.tool_calls.calls[1].name = "render_standard_charts_and_table"
           /\ m.tool_calls.calls[1].arguments = [investment_summary |-> investment_summary'[1]]

\* C20: when the allocation stage runs, it appends to the conversation
\* exactly two messages, in this order: a tool message whose tool_call_id is
\* the id of the first tool call of the message that was last before, then an
\* assistant message carrying exactly one tool call, named
\* render_standard_charts_and_table, whose arguments hold the investment
\* summary.
C20_AllocationAppendsToolAndRenderMessages ==
    [][(ppc = "alloc_run" /\ ppc' # "alloc_run") => AppendsToolAndRenderMessages]_vars

\* the events sent after the reset, without the closing RUN_FINISHED
AfterReset ==
    LET k == CHOOSE n \in ResetPositions : TRUE
        rest == SubSeq(stream, k + 1, Len(stream))
    IN  IF rest # <<>> /\ Last(rest).type = "RUN_FINISHED"
        THEN SubSeq(rest, 1, Len(rest) - 1)
        ELSE rest

\* the deltas of a sequence of events, joined
RECURSIVE JoinedDeltas(_)
JoinedDeltas(events) ==
    IF events = <<>> THEN <<>> ELSE Head(events).value \o JoinedDeltas(Tail(events))

\* a TOOL_CALL_START, TOOL_CALL_ARGS, TOOL_CALL_END group for a tool call
IsToolCallGroup(events, call) ==
    events = <<ToolCallStart(call.id, call.name), ToolCallArgs(call.id, call.arguments),
               ToolCallEnd(call.id)>>

\* a TEXT_MESSAGE_START, one or more TEXT_MESSAGE_CONTENT, TEXT_MESSAGE_END
\* group with one message id that spells out a text
IsTextGroup(events, text) ==
    /\ Len(events) >= 3
    /\ events[1].type = "TEXT_MESSAGE_START"
    /\ Last(events).type = "TEXT_MESSAGE_END"
    /\ \A k \in 2..(Len(events) - 1) :
          events[k].type = "TEXT_MESSAGE_CONTENT" /\ events[k].value # <<>>
    /\ \A k \in 1..Len(events) : events[k].id = events[1].id
    /\ JoinedDeltas(SubSeq(events, 2, Len(events) - 1)) = text

\* C21: once the generator has ended after the reset event, and the last
\* conversation message is an assistant message, what was sent after the
\* reset is exactly one result group: with tool calls, TOOL_CALL_START,
\* TOOL_CALL_ARGS, TOOL_CALL_END of tool_calls[0]; otherwise TEXT_MESSAGE_START,
\* one or more TEXT_MESSAGE_CONTENT, TEXT_MESSAGE_END with one message id,
\* spelling out the message text or, for an empty text, the fixed text.
C21_OneResultGroupAfterReset ==
    (StreamEnded /\ ResetPositions # {} /\ Last(messages).role = "assistant") =>
        LET m == Last(messages)
        IN  IF m.tool_calls.calls # <<>>
            THEN IsToolCallGroup(AfterReset, m.tool_calls.calls[1])
            ELSE IsTextGroup(AfterReset, IF m.content = <<>> THEN ErrorText ELSE m.content)

\* C22 as stated: the conversation list only grows by appending at the end;
\* after every step of a stage the previous list is a prefix, by value, of
\* the new list.
C22_MessagesOnlyAppended ==
    [][IsPrefix(messages, messages')]_vars

\* message k is rewritten in place by the chat stage: the content of the
\* first message becomes the system prompt with the portfolio
PromptSubstituted(k) ==
    /\ k = 1 /\ ppc = "chat_llm"
    /\ messages'[k] = [messages[k] EXCEPT !.content = messages'[k].content]

\* message k is rewritten in place by gather_insights: the arguments of the
\* first tool call of the last message get the one more key "insights"
InsightsMerged(k) ==
    /\ k = Len(messages) /\ ppc = "insights_llm"
    /\ Len(messages[k].tool_calls.calls) >= 1
    /\ LET old == messages[k].tool_calls.calls[1].arguments
           new == messages'[k].tool_calls.calls[1].arguments
       IN  /\ messages'[k] = [messages[k] EXCEPT !.tool_calls.calls[1].arguments = new]
           /\ DOMAIN new = DOMAIN old \cup {"insights"}
           /\ \A key \in DOMAIN old \ {"insights"} : new[key] = old[key]

\* C22, amended: the list never shrinks and no message changes its position,
\* role or tool-call identity; new messages are appended at the end; the only
\* messages rewritten in place are the first one (its content, by the chat
\* stage) and the last one (the arguments of its first tool call, to which
\* gather_insights adds the insights); every other message is unchanged.
C22_MessagesAppendedOrRewrittenInPlace ==
    [][/\ Len(messages') >= Len(messages)
       /\ \A k \in 1..Len(messages) :
             \/ messages'[k] = messages[k]
             \/ PromptSubstituted(k)
             \/ InsightsMerged(k)]_vars

\* the request ran all four stages: three messages were appended, the first
\* message was rewritten and the insights were merged into the last one
C22_Witness ==
    /\ ppc = "returned"
    /\ Len(messages) = Len(input_messages) + 3
    /\ messages[1] # input_messages[1]
    /\ messages[2] = input_messages[2]
    /\ "insights" \in DOMAIN Last(messages).tool_calls.calls[1].arguments
    /\ "investment_summary" \in DOMAIN Last(messages).tool_calls.calls[1].arguments

\* gather_insights has got its completion and goes on to its return
InsightsAnswered == ppc = "insights_llm" /\ ppc' = "insights_return"

\* the rest of the context that gather_insights works on
InsightsContextKept ==
    UNCHANGED <<available_cash, investment_portfolio, investment_summary, be_stock_data,
                be_arguments, tool_logs>>

\* C31: when the insights completion selects the tool, gather_insights
\* changes nothing of the conversation but the arguments of the first tool
\* call of the last (assistant) message, which get one more key, insights;
\* the investment_summary in the arguments, the id and the name of the tool
\* call and every other message stay as they were.  When the completion is
\* plain text the conversation is left as it was and the context gets an
\* empty insights value and nothing else.
C31_InsightsMergedIntoLastToolCall ==
    [][InsightsAnswered =>
          /\ InsightsContextKept
          /\ \/ /\ insights' = insights
                /\ Len(messages') = Len(messages)
                /\ \A k \in 1..(Len(messages) - 1) : messages'[k] = messages[k]
                /\ Last(messages).role = "assistant"
                /\ LET old == Last(messages).tool_calls.calls[1]
                       new == Last(messages').tool_calls.calls[1]
                   IN  /\ Last(messages') =
                             [Last(messages) EXCEPT !.tool_calls.calls[1].arguments = new.arguments]
                       /\ new.id = old.id /\ new.name = old.name
                       /\ "insights" \notin DOMAIN old.arguments
                       /\ DOMAIN new.arguments = DOMAIN old.arguments \cup {"insights"}
                       /\ new.arguments.investment_summary = old.arguments.investment_summary
                       /\ new.arguments.insights = <<"bull", "bear">>
             \/ /\ messages' = messages
                /\ insights' = <<"empty">>]_vars

\* the tool was selected: the last tool call carries the summary and the insights
C31_Witness ==
    /\ ppc = "insights_return"
    /\ insights = <<>>
    /\ DOMAIN Last(messages).tool_calls.calls[1].arguments = {"investment_summary", "insights"}
    /\ Last(messages).tool_calls.calls[1].name = "render_standard_charts_and_table"

\* the extraction completion was a tool call / plain text
ExtractedToolCall == ~use_v2_workflow /\ response # <<>> /\ response[1].kind = "tool_calls"
ExtractedText == ~use_v2_workflow /\ response # <<>> /\ response[1].kind = "text"

\* the pipeline ran all its stages and none failed
PipelineReturned == ppc = "returned" /\ agent_task = "done"

\* the value of the portfolio replace: one pair per requested ticker, in the
\* order of the request
IsRequestedPortfolio(value, arguments) ==
    /\ Len(value) = Len(arguments.ticker_symbols)
    /\ \A i \in 1..Len(value) :
          /\ value[i].ticker = arguments.ticker_symbols[i]
          /\ value[i].amount = arguments.amount_of_dollars_to_be_invested[i]

\* add log, completed, for the four stages, and the portfolio replace
IsStockRunEvents(events, arguments) ==
    /\ Len(events) = 9
    /\ events[1] = AddLog("chat") /\ events[2] = CompleteLog(0)
    /\ events[3] = AddLog("simultion")
    /\ events[4].type = "STATE_DELTA" /\ events[4].op = "replace_portfolio"
    /\ IsRequestedPortfolio(events[4].value, arguments)
    /\ events[5] = CompleteLog(1)
    /\ events[6] = AddLog("cash_allocation") /\ events[7] = CompleteLog(2)
    /\ events[8] = AddLog("gather_insights") /\ events[9] = CompleteLog(3)

\* C32: a run whose extraction is a tool call and in which no stage fails
\* emits exactly: add log (chat), completed 0, add log (simultion), replace
\* /investment_portfolio with the requested pairs in request order,
\* completed 1, add log (cash_allocation), completed 2, add log
\* (gather_insights), completed 3.  The portfolio replace is emitted before
\* the price data is fetched.  A run whose extraction is plain text emits
\* exactly the first two events.
C32_PipelineEventOrder ==
    /\ (ExtractedToolCall /\ PipelineReturned) =>
          IsStockRunEvents(emitted, response[1].arguments)
    /\ (ExtractedText /\ PipelineReturned) =>
          emitted = <<AddLog("chat"), CompleteLog(0)>>
    /\ ppc = "sim_fetch" =>
          /\ Last(emitted).op = "replace_portfolio"
          /\ fetch = <<>> /\ be_stock_data = <<>>
    /\ fetch # <<>> => \E k \in 1..Len(emitted) : emitted[k].op = "replace_portfolio"

\* a finished run for two tickers
C32_Witness ==
    /\ ExtractedToolCall /\ PipelineReturned
    /\ Len(response[1].arguments.ticker_symbols) = 2
    /\ Len(emitted) = 9

\* the generator is at or past the reset: what follows reads agent_task.result()
PastDrainLoop == gpc \notin {"idle", "start", "snapshot", "create_task", "drain", "timeout"}

\* a step of the generator (it moves on or sends an event)
GeneratorStep == gpc' # gpc \/ stream' # stream

\* C33: the transport reads the pipeline's result only when the pipeline
\* task is done, in every interleaving; and while the task runs no step of
\* the transport writes the context (conversation, tool logs, cash,
\* portfolio, summary, price data, insights): the pipeline is the only
\* writer.
C33_ResultReadOnlyAfterTaskDone ==
    /\ [](PastDrainLoop => agent_task \in {"done", "failed"})
    /\ [][(agent_task = "running" /\ GeneratorStep) =>
              /\ agent_task' = "running"
              /\ UNCHANGED <<messages, tool_logs, available_cash, investment_portfolio,
                             investment_summary, be_stock_data, be_arguments, insights>>]_vars

\* the generator reads the result of a finished run whose events it sent on
C33_Witness ==
    /\ gpc = "result" /\ agent_task = "done"
    /\ \E k \in 1..Len(stream) : stream[k].op = "complete_log"

IsAddLog(e) == e.type = "STATE_DELTA" /\ e.op = "add_log"
IsCompleteLog(e) == e.type = "STATE_DELTA" /\ e.op = "complete_log"
\* the number of entries a client has in tool_logs after the events
AddsIn(events) == Len(SelectSeq(events, IsAddLog))
EmitsCompletion == emitted' # emitted /\ IsCompleteLog(Last(emitted'))

\* C35: every "replace /tool_logs/{index}/status" event carries the index of
\* the entry its own stage added last, which is the number of add events
\* emitted before it minus one; the context's tool_logs has one entry per add
\* event; and a client that starts from tool_logs = [] and applies the
\* stream in order finds the entry of every replace it receives.
C35_CompletionIndexIsLastAdded ==
    /\ [](/\ AddsIn(emitted) = Len(tool_logs)
          /\ \A k \in 1..Len(emitted) :
                IsCompleteLog(emitted[k]) =>
                    /\ AddsIn(SubSeq(emitted, 1, k - 1)) >= 1
                    /\ emitted[k].idx = AddsIn(SubSeq(emitted, 1, k - 1)) - 1
          /\ \A k \in 1..Len(stream) :
                IsCompleteLog(stream[k]) =>
                    stream[k].idx \in 0..(AddsIn(SubSeq(stream, 1, k - 1)) - 1))
    /\ [][EmitsCompletion =>
            /\ Last(emitted').idx = Len(tool_logs) - 1
            /\ tool_logs' = tool_logs
            /\ Last(tool_logs).id = Last(stages)
            /\ Last(SelectSeq(emitted, IsAddLog)) = AddLog(Last(stages))]_vars

\* the client has received the completion of the fourth entry
C35_Witness ==
    /\ \E k \in 1..Len(stream) :
          /\ stream[k] = CompleteLog(3)
          /\ AddsIn(SubSeq(stream, 1, k - 1)) = 4
    /\ Len(tool_logs) = 4

(***************************************************************************)
(* Claims about market_analysis_v2 (SpecV2)                                *)
(***************************************************************************)
RetryOver == v2_pc = "retry_done"

\* the calls of the wrapped function that raise before call number k
AllFailBefore(k) == \A j \in 1..(k - 1) : retry.func[j] # "success"

\* 1, 2, 4, ...: the delay doubles from initial_delay
Doubling(sleeps) == \A i \in 1..Len(sleeps) : sleeps[i] = 2 ^ (i - 1)

\* C23: retry_with_backoff(max_attempts = n) never calls the wrapped function
\* more than n times.  When it returns, it returns the result of the first
\* call that succeeded, call number k, after exactly k calls and k - 1 sleeps.
\* When it raises, every one of the n calls has failed, exactly n calls were
\* made, the exception is the one of call number n (for n = 0 there is no
\* call, and the wrapper raises a TypeError), and only n - 1 sleeps were
\* made: one between two attempts, none after the last.
C23_RetryCallsAtMostMaxAttempts ==
    v2_pc \in {"retry", "retry_done"} =>
        /\ retry.calls <= retry.max_attempts
        /\ Len(retry.sleeps) <= retry.calls
        /\ Doubling(retry.sleeps)
        /\ (RetryOver /\ retry.outcome = "returned") =>
              /\ retry.func[retry.calls] = "success"
              /\ AllFailBefore(retry.calls)
              /\ retry.value = <<"result of call", retry.calls>>
              /\ Len(retry.sleeps) = retry.calls - 1
        /\ (RetryOver /\ retry.outcome = "raised") =>
              /\ retry.calls = retry.max_attempts
              /\ AllFailBefore(retry.max_attempts + 1)
              /\ retry.max_attempts >= 1 =>
                    /\ retry.value = retry.func[retry.max_attempts]
                    /\ Len(retry.sleeps) = retry.max_attempts - 1
              /\ retry.max_attempts = 0 => retry.sleeps = <<>>

\* success at the third call, after two failures and the sleeps of 1 and 2
C23_Witness ==
    /\ RetryOver /\ retry.outcome = "returned"
    /\ retry.calls = 3 /\ retry.max_attempts = 3
    /\ retry.sleeps = <<1, 2>>

\* get_economic_indicators has returned its dictionary
FredReturned == fred # <<>> /\ fred.returned # <<>>

\* the indicator ids found in economic_data, and those named in errors
IdsInData(r) == {r.economic_data[name] : name \in DOMAIN r.economic_data}
IdsInErrors(r) == {r.errors[k][2] : k \in 1..Len(r.errors)}

\* C24: when get_economic_indicators returns for a list of distinct
\* indicators, every requested indicator is in exactly one of economic_data
\* and errors, len(economic_data) + len(errors) is the number requested, and
\* success is True exactly when economic_data is not empty.
C24_EveryIndicatorInDataOrErrors ==
    FredReturned =>
        LET r == fred.returned[1]
            requested == {fred.indicator_list[i] : i \in 1..Len(fred.indicator_list)}
        IN  /\ Cardinality(DOMAIN r.economic_data) + Len(r.errors)
                  = Len(fred.indicator_list)
            /\ \A id \in requested : (id \in IdsInData(r)) # (id \in IdsInErrors(r))
            /\ r.success <=> (DOMAIN r.economic_data # {})

NewsStepOver == v2_pc = "step_done" /\ step_output.step_name = "news_analysis"
EconomicStepOver == v2_pc = "step_done" /\ step_output.step_name = "economic_data"

\* the search of Exa inside search_portfolio_news raised or timed out
ExaSearchRaised == exa # <<>> /\ exa.outcome.raised # "None"

\* the fallback of the news step
IsNewsUnavailable(output) ==
    /\ output.content.articles = <<>>
    /\ output.content.analysis = FixedText("News analysis unavailable")

\* the economic-data step fails exactly when the tools could not be built
\* (fred = <<>>) or no indicator was fetched, and then it carries an error
EconomicStepFailsIffNothingFetched ==
    EconomicStepOver =>
        /\ ~step_output.success <=> (fred = <<>> \/ DOMAIN fred.results = {})
        /\ ~step_output.success => DOMAIN step_output.content = {"error"}
        /\ step_output.success => step_output.content.raw_data = fred.results

Requests == {1, 2}
FrameOf(r) == IF cur = r THEN Frame ELSE suspended
ForwardedOf(events) == SelectSeq(events, IsPipelineEvent)

\* C34: two requests served concurrently do not interfere. The pipeline
\* events delivered on a request's stream are, in order, events that the
\* request's own pipeline emitted; and nothing a request owns (its queue, its
\* stream, its tool logs, its conversation, its available cash, the rest of
\* its context) changes in a step of the other request or when the event
\* loop passes from one request to the other.
C34_RequestsDoNotInterfere ==
    /\ [](\A r \in Requests :
            IsPrefix(ForwardedOf(FrameOf(r).stream), FrameOf(r).emitted))
    /\ [][\A r \in Requests :
            FrameOf(r)' # FrameOf(r) => cur = r /\ cur' = r]_vars

\* both requests ran their pipelines to the end, interleaved, and both
\* streams carried the four completions; each request spent its own cash
C34_Witness ==
    /\ \A r \in Requests :
          /\ FrameOf(r).gpc = "closed"
          /\ FrameOf(r).stages = <<"chat", "simultion", "cash_allocation", "gather_insights">>
          /\ \E k \in 1..Len(FrameOf(r).stream) : FrameOf(r).stream[k] = CompleteLog(3)
          /\ FrameOf(r).available_cash < TwoCash[r]
          /\ Len(FrameOf(r).tool_logs) = 4
    /\ FrameOf(2).available_cash = FrameOf(1).available_cash + (TwoCash[2] - TwoCash[1])

(***************************************************************************)
(* Claims about the streaming of a text result (SpecText)                  *)
(***************************************************************************)
IsTextContent(e) == e.type = "TEXT_MESSAGE_CONTENT"
ContentDeltas == SelectSeq(stream, IsTextContent)
TextStreamed == gpc \in {"text_end", "finish", "closed"}

\* C39: for every non-empty assistant text the transport sends at most 100
\* TEXT_MESSAGE_CONTENT events, none with an empty delta, and the deltas
\* joined in emission order are at every point the beginning of the text and,
\* once the last chunk is sent, the text itself: no character is lost,
\* duplicated or moved, whatever the length of the text.
C39_ChunksRebuildTheText ==
    LET content == Last(messages).content
    IN  /\ content # <<>>
        /\ Len(ContentDeltas) <= NParts
        /\ \A k \in 1..Len(ContentDeltas) : ContentDeltas[k].value # <<>>
        /\ IsPrefix(JoinedDeltas(ContentDeltas), content)
        /\ TextStreamed => JoinedDeltas(ContentDeltas) = content

\* a text of 199 characters was sent as 99 chunks of one character and a
\* last chunk of 100
C39_Witness ==
    /\ gpc = "closed"
    /\ Len(Last(messages).content) = 2 * NParts - 1
    /\ Len(ContentDeltas) = NParts
    /\ Len(ContentDeltas[NParts].value) = NParts
    /\ Len(ContentDeltas[1].value) = 1

(***************************************************************************)
(* Claims about the purchase loops (SpecSim)                               *)
(***************************************************************************)
DistinctTickers == \A i, j \in 1..Len(tickers) : tickers[i] = tickers[j] => i = j

\* The single-shot loop appends exactly one log entry per list position, so
\* entry k of the log belongs to position k of tickers and amounts.
FirstPrice(k) == stock_data[1][tickers[k]]

\* the first-date prices of the request's tickers are valid prices or missing
ValidFirstPrices == \A i \in 1..Len(tickers) : FirstPrice(i) # 0

\* C10: in a single_shot simulation every purchase buys at most
\* floor(amount of that list position / first-date price) shares (so, for
\* distinct tickers, holdings never exceed that number), and the running cash
\* balance is never negative at any point of the run.
C10_SingleShotNoOverbuyNoNegativeCash ==
    (sim_pc # "off" /\ interval = "single_shot" /\ ValidFirstPrices) =>
        /\ total_cash >= 0
        /\ \A k \in 1..Len(investment_log) :
              investment_log[k].kind = "bought" =>
                  investment_log[k].shares <= amounts[k] \div FirstPrice(k)
        /\ DistinctTickers =>
              \A i \in 1..Len(tickers) :
                  holdings[tickers[i]] <=
                      IF IsNaN(FirstPrice(i)) THEN 0 ELSE amounts[i] \div FirstPrice(i)

\* a finished single-shot run with one purchase and one ticker refused for
\* lack of total cash
C10_Witness ==
    /\ sim_pc = "done"
    /\ ValidFirstPrices
    /\ interval = "single_shot"
    /\ \E k \in 1..Len(investment_log) :
          investment_log[k].kind = "bought" /\ investment_log[k].shares > 1
    /\ \E k \in 1..Len(investment_log) : investment_log[k].kind = "not_enough_total"
    /\ total_cash < StartCash(start_cash, amounts)

\* the simulation is past the purchase loops / past the summary
LoopsDone == sim_pc \in {"done", "summarized", "benchmarked"}
Summarized == sim_pc \in {"summarized", "benchmarked"}

\* the running cash before entry k of the log was written, and the shares of
\* a ticker bought by the first n entries, both read off the log
RECURSIVE CashBefore(_)
CashBefore(k) ==
    IF k = 1 THEN StartCash(start_cash, amounts)
    ELSE XSub(CashBefore(k - 1), investment_log[k - 1].cost)

RECURSIVE SharesInLog(_, _)
SharesInLog(ticker, n) ==
    IF n = 0 THEN 0
    ELSE IF investment_log[n].ticker = ticker
    THEN XAdd(SharesInLog(ticker, n - 1), investment_log[n].shares)
    ELSE SharesInLog(ticker, n - 1)

\* cash and holdings are what the log accounts for
LogAccountsForState ==
    /\ total_cash = CashBefore(Len(investment_log) + 1)
    /\ \A t \in DOMAIN holdings : holdings[t] = SharesInLog(t, Len(investment_log))

\* position k of a single-shot run had a valid first-date price p, an amount
\* a >= p and running cash >= a
SingleShotCanBuy(k) ==
    /\ FirstPrice(k) > 0
    /\ amounts[k] >= FirstPrice(k)
    /\ XIsNumber(CashBefore(k)) /\ CashBefore(k) >= amounts[k]

\* ... and then bought floor(a/p) shares at cost floor(a/p)*p at the first date
SingleShotBuysFloor ==
    (interval = "single_shot" /\ sim_pc # "off") =>
        /\ LogAccountsForState
        /\ \A k \in 1..Len(investment_log) :
              SingleShotCanBuy(k) =>
                  LET a == amounts[k]
                      p == FirstPrice(k)
                  IN  investment_log[k] =
                          LogEntry("bought", 1, tickers[k], a \div p, p, (a \div p) * p)

\* a single-shot run makes one pass over the tickers, at the first date: its
\* result is that of the frame cut down to its first row
SingleShotAtFirstDateOnly ==
    (interval = "single_shot" /\ LoopsDone) =>
        /\ Len(investment_log) = Len(tickers)
        /\ \A k \in 1..Len(investment_log) : investment_log[k].date = 1
        /\ SimState = SingleShotLoop(InitialSim(tickers, amounts, start_cash), 1,
                                     tickers, amounts, stock_data[1])

\* the invested amount of a ticker bought in a single-shot run
SingleShotInvested ==
    (interval = "single_shot" /\ Summarized /\ DistinctTickers) =>
        \A k \in 1..Len(tickers) :
            (investment_log[k].kind = "bought" /\ FirstPrice(k) > 0) =>
                sim_summary[1].total_invested_per_stock[tickers[k]] =
                    Num((amounts[k] \div FirstPrice(k)) * FirstPrice(k))

\* 1000 dollars of one ticker at price 100, with 1000 in cash
ScenarioA ==
    (/\ interval = "single_shot" /\ Summarized
     /\ tickers = <<"AAPL">> /\ amounts = <<1000>> /\ start_cash = 1000
     /\ stock_data[1]["AAPL"] = 100) =>
        /\ holdings["AAPL"] = 10
        /\ total_cash = 0
        /\ sim_summary[1].total_invested_per_stock["AAPL"] = Num(1000)
        /\ sim_summary[1].total_invested = Num(1000)

\* C11: in a single_shot simulation a ticker with a valid first-date price p,
\* an amount a >= p and running cash >= a gets exactly floor(a/p) shares at
\* the first date, cash goes down by floor(a/p)*p, and (for distinct tickers)
\* the summary's invested amount of the ticker is floor(a/p)*p; the run makes
\* one pass over the tickers at the first date, so later prices change
\* nothing; 1000 dollars at price 100 with 1000 in cash give 10 shares, cash
\* 0 and 1000 invested.
C11_SingleShotBuysFloorAtFirstDate ==
    /\ SingleShotBuysFloor
    /\ SingleShotAtFirstDateOnly
    /\ SingleShotInvested
    /\ ScenarioA

\* a summarized single-shot run over two dates with different prices that
\* bought two shares of a ticker
C11_Witness ==
    /\ Summarized /\ interval = "single_shot" /\ DistinctTickers
    /\ Len(stock_data) = 2
    /\ \E k \in 1..Len(investment_log) :
          /\ investment_log[k].kind = "bought" /\ investment_log[k].shares = 2
          /\ stock_data[2][tickers[k]] # stock_data[1][tickers[k]]
          /\ total_cash = StartCash(start_cash, amounts) - 2 * FirstPrice(k)

\* the shortfall tuples recorded for a date and a ticker
ShortfallsFor(date, ticker) ==
    {j \in 1..Len(add_funds_dates) :
        add_funds_dates[j][1] = date /\ add_funds_dates[j][2] = ticker}

\* C12: in a single_shot simulation a list position whose first-date price is
\* missing gets the "no price" log entry and no purchase: its ticker's
\* holdings stay 0, cash is unchanged by it, the funds-insufficient flag is
\* set, and (for distinct tickers) exactly one shortfall tuple is recorded for
\* the first date and that ticker, holding the missing price and the amount;
\* the loop goes on to the other positions, which buy when they can, and the
\* finished run has made its one pass at the first date, so the ticker is
\* not purchased at any later date.
C12_SingleShotMissingFirstPrice ==
    (interval = "single_shot" /\ sim_pc # "off") =>
        /\ LogAccountsForState
        /\ LoopsDone => /\ Len(investment_log) = Len(tickers)
                        /\ \A j \in 1..Len(investment_log) : investment_log[j].date = 1
        /\ \A k \in 1..Len(investment_log) :
              FirstPrice(k) = NaN =>
                  /\ investment_log[k] = LogEntry("no_price", 1, tickers[k], 0, NaN, 0)
                  /\ CashBefore(k + 1) = CashBefore(k)
                  /\ holdings[tickers[k]] = 0
                  /\ add_funds_needed
                  /\ \E j \in ShortfallsFor(1, tickers[k]) :
                        add_funds_dates[j] = <<1, tickers[k], NaN, amounts[k]>>
                  /\ DistinctTickers => Cardinality(ShortfallsFor(1, tickers[k])) = 1
                  /\ \A j \in 1..Len(investment_log) :
                        (j # k /\ SingleShotCanBuy(j)) => investment_log[j].kind = "bought"

\* a finished single-shot run over two dates: the first ticker has no price at
\* the first date and a valid one at the second, the second ticker is bought
C12_Witness ==
    /\ sim_pc = "done" /\ interval = "single_shot" /\ DistinctTickers
    /\ Len(stock_data) = 2 /\ Len(tickers) = 2
    /\ FirstPrice(1) = NaN /\ stock_data[2][tickers[1]] > 0
    /\ holdings[tickers[1]] = 0
    /\ investment_log[2].kind = "bought"
    /\ total_cash = StartCash(start_cash, amounts) - investment_log[2].cost
    /\ Len(add_funds_dates) = 1

\* C13: in a periodic simulation every purchase costs no more than the cash
\* available immediately before it, and the running cash balance is a
\* non-negative number after every step.
C13_PeriodicCostWithinCash ==
    (interval # "single_shot" /\ sim_pc # "off") =>
        /\ XIsNumber(total_cash) /\ total_cash >= 0
        /\ \A k \in 1..Len(investment_log) :
              investment_log[k].kind = "bought" =>
                  /\ XIsNumber(investment_log[k].cost) /\ XIsNumber(CashBefore(k))
                  /\ investment_log[k].cost <= CashBefore(k)

\* the simulation has run the benchmark
Benchmarked == sim_pc = "benchmarked"

\* C14: no floor-division by a price that is zero or missing is performed,
\* in the portfolio loops and in the benchmark: a purchase, which is logged
\* with the shares the division gave, is never made at such a price.
C14_NoDivisionByZeroOrMissingPrice ==
    /\ sim_pc # "off" =>
          \A k \in 1..Len(investment_log) :
              investment_log[k].kind = "bought" =>
                  /\ investment_log[k].price > 0
                  /\ XIsNumber(investment_log[k].shares)
    /\ Benchmarked =>
          \A k \in 1..Len(benchmark[1].spy_investment_log) :
              /\ benchmark[1].spy_investment_log[k].price > 0
              /\ FIsFinite(benchmark[1].spy_investment_log[k].shares)

\* the tickers of the request, as a set
TickerSet == {tickers[i] : i \in 1..Len(tickers)}

\* no price of the frame is 0
NoZeroPrice ==
    \A d \in 1..Len(stock_data) : \A t \in Symbols : stock_data[d][t] # 0

\* C15: for every ticker, percent return and percent allocation in the
\* investment summary are finite numbers; they are exactly 0 when the
\* ticker's invested amount is 0, and percent allocation is 0 when total
\* invested is 0.
C15_PercentagesFiniteAndZeroWhenNothingInvested ==
    Summarized =>
        \A t \in TickerSet :
            LET sm == sim_summary[1]
            IN  /\ FIsFinite(sm.percent_return_per_stock[t])
                /\ FIsFinite(sm.percent_allocation_per_stock[t])
                /\ FIsZero(sm.total_invested_per_stock[t]) =>
                      /\ sm.percent_return_per_stock[t] = Num(0)
                      /\ sm.percent_allocation_per_stock[t] = Num(0)
                /\ FIsZero(sm.total_invested) =>
                      sm.percent_allocation_per_stock[t] = Num(0)

\* some price of a requested ticker is missing in the frame
SomePriceMissing ==
    \E d \in 1..Len(stock_data) : \E t \in TickerSet : stock_data[d][t] = NaN

\* C16: when a price of some ticker at some date is missing, the per-ticker
\* invested amounts, total_invested, the per-ticker returns, total_value and
\* the benchmark's starting capital are all defined (finite) numbers.
C16_MissingPriceKeepsTotalsDefined ==
    (Summarized /\ SomePriceMissing) =>
        LET sm == sim_summary[1]
        IN  /\ \A t \in TickerSet :
                  /\ FIsFinite(sm.total_invested_per_stock[t])
                  /\ FIsFinite(sm.returns[t])
            /\ FIsFinite(sm.total_invested)
            /\ FIsFinite(sm.total_value)
            /\ FIsFinite(InitialBenchmark(sm.total_invested).spy_cash)

\* two numbers of the summary are equal finite numbers
FEq(a, b) == FIsFinite(a) /\ FIsFinite(b) /\ a[1] * b[2] = b[1] * a[2]

\* the last-date value of the holdings of the first n tickers of the list
RECURSIVE ValueOfHoldings(_)
ValueOfHoldings(n) ==
    IF n = 0 THEN Num(0)
    ELSE FAdd(ValueOfHoldings(n - 1),
              FMul(Lift(holdings[tickers[n]]), Lift(Last(stock_data)[tickers[n]])))

\* no purchase was made
NothingBought ==
    \A k \in 1..Len(investment_log) : investment_log[k].kind # "bought"

\* C17: the summary's total value is the sum over the tickers of holdings
\* times last-date price, plus the remaining cash; when no purchase succeeded
\* the total value equals the starting cash and every percentage is 0.
C17_TotalValueIsHoldingsPlusCash ==
    (Summarized /\ DistinctTickers) =>
        LET sm == sim_summary[1]
        IN  /\ FEq(sm.total_value, FAdd(ValueOfHoldings(Len(tickers)), Lift(total_cash)))
            /\ NothingBought =>
                  /\ FEq(sm.total_value, Num(StartCash(start_cash, amounts)))
                  /\ \A t \in TickerSet :
                        /\ sm.percent_return_per_stock[t] = Num(0)
                        /\ sm.percent_allocation_per_stock[t] = Num(0)

\* the result of the purchase loops as a function of the five inputs
PurchasesOfInputs == RunPurchases(tickers, amounts, interval, stock_data, start_cash)

Periodic == interval # "single_shot" /\ sim_pc # "off"

\* the (date, ticker) pairs the periodic loop has been through
PairsProcessed ==
    IF sim_pc = "loop" THEN (sim_date - 1) * Len(tickers) + (sim_idx - 1)
    ELSE Len(tickers) * Len(stock_data)

\* the first position of a ticker in the list
TickerPos(t) == CHOOSE i \in 1..Len(tickers) : tickers[i] = t

\* the log follows the dates, and within a date the list of tickers
LogInLoopOrder ==
    \A j, k \in 1..Len(investment_log) :
        j < k =>
            /\ investment_log[j].date <= investment_log[k].date
            /\ investment_log[j].date = investment_log[k].date =>
                  TickerPos(investment_log[j].ticker) <= TickerPos(investment_log[k].ticker)
            /\ DistinctTickers =>
                  <<investment_log[j].date, investment_log[j].ticker>>
                      # <<investment_log[k].date, investment_log[k].ticker>>

\* the pair the loop is at has a valid price above the running cash
PriceAboveCash ==
    /\ Periodic /\ sim_pc = "loop"
    /\ XIsNumber(stock_data[sim_date][tickers[sim_idx]])
    /\ XIsNumber(total_cash)
    /\ stock_data[sim_date][tickers[sim_idx]] > total_cash

\* the loop goes on to the next pair, or ends after the last one
LoopGoesOn ==
    IF sim_idx < Len(tickers) THEN sim_pc' = "loop" /\ sim_date' = sim_date /\ sim_idx' = sim_idx + 1
    ELSE IF sim_date < Len(stock_data) THEN sim_pc' = "loop" /\ sim_date' = sim_date + 1 /\ sim_idx' = 1
    ELSE sim_pc' = "done"

\* C26: the periodic loop goes through the dates in order and within a date
\* through the tickers in list order; the log has at most one entry per
\* (date, ticker) pair processed, hence at most len(tickers) * len(dates);
\* a pair whose valid price is above the running cash sets the
\* funds-insufficient flag and records one shortfall, buys nothing, and the
\* loop goes on with the next pair until the last pair of the last date.
C26_PeriodicLoopOrderAndShortfalls ==
    /\ [](Periodic =>
            /\ Len(investment_log) <= PairsProcessed
            /\ PairsProcessed <= Len(tickers) * Len(stock_data)
            /\ LogInLoopOrder
            /\ LoopsDone => (sim_date = Len(stock_data) /\ sim_idx = Len(tickers)))
    /\ [][PriceAboveCash =>
            /\ add_funds_needed'
            /\ add_funds_dates' = Append(add_funds_dates,
                  <<sim_date, tickers[sim_idx], stock_data[sim_date][tickers[sim_idx]], total_cash>>)
            /\ Len(investment_log') = Len(investment_log) + 1
            /\ Last(investment_log').kind = "not_enough_cash"
            /\ Last(investment_log').date = sim_date
            /\ Last(investment_log').ticker = tickers[sim_idx]
            /\ total_cash' = total_cash /\ holdings' = holdings
            /\ LoopGoesOn]_vars

\* a shortfall at one pair, and a purchase at a later pair of the same run
C26_Witness ==
    /\ Periodic /\ LoopsDone /\ add_funds_needed
    /\ \E j, k \in 1..Len(investment_log) :
          /\ j < k
          /\ investment_log[j].kind = "not_enough_cash"
          /\ investment_log[k].kind = "bought"
\* two numbers of the summary are the same number, or the same non-number
FSame(a, b) == FEq(a, b) \/ (~FIsFinite(a) /\ a = b)

\* the sum of the costs of the purchases of exactly this ticker among the
\* first n entries of the log
RECURSIVE PurchaseCosts(_, _)
PurchaseCosts(ticker, n) ==
    IF n = 0 THEN Num(0)
    ELSE IF investment_log[n].kind = "bought" /\ investment_log[n].ticker = ticker
    THEN FAdd(PurchaseCosts(ticker, n - 1), Lift(investment_log[n].cost))
    ELSE PurchaseCosts(ticker, n - 1)

RECURSIVE SumInvested(_)
SumInvested(n) ==
    IF n = 0 THEN Num(0)
    ELSE FAdd(SumInvested(n - 1), sim_summary[1].total_invested_per_stock[tickers[n]])

\* C27: in the summary of a periodic run over distinct tickers, the invested
\* amount of every ticker is the sum of the costs of the purchases of exactly
\* that ticker, and the per-ticker amounts add up to total_invested.
C27_InvestedIsCostOfOwnPurchases ==
    (Periodic /\ Summarized /\ DistinctTickers) =>
        /\ \A t \in TickerSet :
              FSame(sim_summary[1].total_invested_per_stock[t],
                    PurchaseCosts(t, Len(investment_log)))
        /\ FSame(SumInvested(Len(tickers)), sim_summary[1].total_invested)
\* the shares of a ticker bought on or before a date, among the first n
\* entries of the log
RECURSIVE HeldAsOf(_, _, _)
HeldAsOf(ticker, date, n) ==
    IF n = 0 THEN Num(0)
    ELSE IF /\ investment_log[n].kind = "bought"
            /\ investment_log[n].ticker = ticker
            /\ investment_log[n].date <= date
    THEN FAdd(HeldAsOf(ticker, date, n - 1), Lift(investment_log[n].shares))
    ELSE HeldAsOf(ticker, date, n - 1)

\* shares held as of a date times the price at that date, over the first n
\* tickers of the list that have a price at that date
RECURSIVE ValueAsOf(_, _)
ValueAsOf(date, n) ==
    IF n = 0 THEN Num(0)
    ELSE IF IsNA(stock_data[date][tickers[n]]) THEN ValueAsOf(date, n - 1)
    ELSE FAdd(ValueAsOf(date, n - 1),
              FMul(HeldAsOf(tickers[n], date, Len(investment_log)),
                   Lift(stock_data[date][tickers[n]])))

\* C28: at every date of the price index the portfolio value of the
\* performance series is the sum, over the tickers with a valid price at
\* that date, of the shares bought on or before that date times the price at
\* that date, without the cash; for single-shot and for periodic runs.
C28_PortfolioValueOfSharesHeldAtDate ==
    Benchmarked =>
        \A d \in 1..Len(stock_data) :
            FSame(performanceData[d].portfolio, ValueAsOf(d, Len(tickers)))
\* the dates at which the benchmark strategy buys: the first date, or every
\* date, when the benchmark has a price there
BenchmarkDates ==
    {d \in 1..Len(stock_data) :
        /\ ~IsNA(spy_prices[d])
        /\ interval = "single_shot" => d = 1}

\* the amount the benchmark puts in at one date
RECURSIVE SumOfLog(_, _, _)
SumOfLog(log, field, n) ==
    IF n = 0 THEN Num(0) ELSE FAdd(SumOfLog(log, field, n - 1), log[n][field])

\* floor(amount / price) for a finite amount a >= 0 and a price > 0, where
\* the amount is total_invested (single shot) or total_invested / dates
FloorShares(total_invested, price) ==
    IF interval = "single_shot"
    THEN total_invested[1] \div (total_invested[2] * price)
    ELSE total_invested[1] \div (total_invested[2] * Len(stock_data) * price)

\* C29: the benchmark starts with total_invested of the summary as capital.
\* It buys once at every date of its strategy that has a benchmark price (the
\* first date for single_shot, every date for periodic) and at no other
\* date; a purchase at a price > 0 is of floor(capital / price) shares for
\* single_shot and of floor((total_invested / number of dates) / price)
\* shares for periodic, at shares * price; what is left of the capital is
\* total_invested less the costs.
C29_BenchmarkMirrorsStrategy ==
    Benchmarked =>
        LET b == benchmark[1]
            log == b.spy_investment_log
            capital == sim_summary[1].total_invested
        IN  /\ {log[k].date : k \in 1..Len(log)} = BenchmarkDates
            /\ Len(log) = Cardinality(BenchmarkDates)
            /\ \A j, k \in 1..Len(log) : j < k => log[j].date < log[k].date
            /\ \A k \in 1..Len(log) :
                  /\ log[k].price = spy_prices[log[k].date]
                  /\ (FIsFinite(capital) /\ capital[1] >= 0 /\ capital[2] > 0
                          /\ log[k].price > 0) =>
                        /\ log[k].shares = Num(FloorShares(capital, log[k].price))
                        /\ FEq(log[k].cost, Num(FloorShares(capital, log[k].price) * log[k].price))
            /\ FSame(b.spy_shares, SumOfLog(log, "shares", Len(log)))
            /\ FSame(b.spy_invested, SumOfLog(log, "cost", Len(log)))
            /\ FSame(b.spy_cash, FSub(capital, SumOfLog(log, "cost", Len(log))))
            /\ log = <<>> => b.spy_cash = capital

\* a periodic benchmark that bought at both dates, one share or more at one
C29_Witness ==
    /\ Benchmarked /\ Periodic /\ Len(stock_data) = 2
    /\ Len(benchmark[1].spy_investment_log) = 2
    /\ FGt(benchmark[1].spy_shares, Num(0)) /\ FIsFinite(benchmark[1].spy_shares)
    /\ FIsFinite(sim_summary[1].total_invested)
\* the benchmark download raised, and the simulation has gone on to its end
BenchmarkFetchRaised == Benchmarked /\ spy_prices = SpyFetchFailed(Len(stock_data))

\* C30: when the benchmark download raises, the simulation still runs to its
\* end: the performance series has one point for every date of the price
\* index, in order, each with a null benchmark value and with the portfolio
\* value it has after a successful download; the benchmark buys nothing; and
\* holdings, cash, the log and the summary are what the five inputs alone
\* determine, the same as after a successful download.
C30_BenchmarkFailureKeepsSimulation ==
    BenchmarkFetchRaised =>
        /\ DOMAIN performanceData = 1..Len(stock_data)
        /\ \A d \in 1..Len(stock_data) :
              /\ performanceData[d].date = d
              /\ performanceData[d].spy = Null
              /\ performanceData[d].portfolio
                    = PortValue(PurchasesOfInputs.holdings, tickers, stock_data[d], Len(tickers))
        /\ benchmark[1].spy_investment_log = <<>>
        /\ holdings = PurchasesOfInputs.holdings
        /\ total_cash = PurchasesOfInputs.total_cash
        /\ investment_log = PurchasesOfInputs.investment_log
        /\ sim_summary[1] = SummaryOf(PurchasesOfInputs, tickers, interval, stock_data)

\* the download raised in a run over two dates that had bought shares
C30_Witness ==
    /\ BenchmarkFetchRaised /\ Len(stock_data) = 2
    /\ \E k \in 1..Len(investment_log) : investment_log[k].kind = "bought"
    /\ performanceData[2].spy = Null
    /\ FGt(performanceData[2].portfolio, Num(0))

\* the sum of the costs of the purchases among the first n entries of the log
RECURSIVE SpentInLog(_)
SpentInLog(n) ==
    IF n = 0 THEN 0
    ELSE IF investment_log[n].kind = "bought"
    THEN XAdd(SpentInLog(n - 1), investment_log[n].cost)
    ELSE SpentInLog(n - 1)

\* C36: cash is conserved by the simulation: in both strategies the starting
\* cash equals the remaining cash plus the sum of the costs of all purchases
\* in the transaction log, and the remaining cash, which line 574 stores as
\* the context's available_cash, is a number not greater than the starting
\* cash.
C36_CashIsConserved ==
    LoopsDone =>
        /\ XIsNumber(total_cash)
        /\ XAdd(total_cash, SpentInLog(Len(investment_log))) = StartCash(start_cash, amounts)
        /\ total_cash <= StartCash(start_cash, amounts)

\* C37: in a single_shot simulation whose starting cash is at least the sum
\* of all per-ticker amounts, no list position fails the total-cash check
\* (the running cash before it is at least its amount), whatever the order
\* of the tickers: a position is left without a purchase, and the
\* funds-insufficient flag is set, only where the first-date price is
\* missing or exceeds the allocated amount.
C37_EnoughCashNeverFailsTotalCheck ==
    (/\ sim_pc # "off" /\ interval = "single_shot"
     /\ StartCash(start_cash, amounts) >= SumSeq(amounts)) =>
        /\ \A k \in 1..Len(investment_log) :
              /\ XGe(CashBefore(k), amounts[k])
              /\ investment_log[k].kind # "bought" =>
                    IsNaN(FirstPrice(k)) \/ XGt(FirstPrice(k), amounts[k])
        /\ add_funds_needed =>
              \E k \in 1..Len(investment_log) :
                  IsNaN(FirstPrice(k)) \/ XGt(FirstPrice(k), amounts[k])

IsWarningLine(l) == l.line = "Some investments could not be made due to insufficient funds"
IsSuccessLine(l) == l.line = "All investments were made successfully"
IsShortfallLine(l) == l.line = "not enough cash for"
ShortfallLines(m) == SelectSeq(m, IsShortfallLine)

\* C38: at the end of every simulation the funds-insufficient flag is True
\* if and only if the list of shortfall tuples is non-empty; the summary
\* message holds the insufficient-funds warning exactly when the flag is
\* True, followed by one line per shortfall tuple, in order, and the "All
\* investments were made successfully" line exactly when the flag is False.
C38_FlagIffShortfallsAndMessage ==
    LoopsDone =>
        LET m == msg(SimState)
        IN  /\ add_funds_needed <=> add_funds_dates # <<>>
            /\ (\E k \in 1..Len(m) : IsWarningLine(m[k])) <=> add_funds_needed
            /\ (\E k \in 1..Len(m) : IsSuccessLine(m[k])) <=> ~add_funds_needed
            /\ Len(ShortfallLines(m)) = Len(add_funds_dates)
            /\ \A j \in 1..Len(add_funds_dates) :
                  ShortfallLines(m)[j].of = add_funds_dates[j]

\* a finished run with two shortfalls, whose message is the warning and two lines
C38_Witness ==
    /\ sim_pc = "benchmarked"
    /\ add_funds_needed /\ Len(add_funds_dates) = 2
    /\ Len(msg(SimState)) = 3 /\ IsWarningLine(msg(SimState)[1])
    /\ msg(SimState)[3].of = add_funds_dates[2]

====
